---- MODULE Spec2Model ----
(***************************************************************************)
(* A model of the Anoma ledger node's transaction pipeline:                *)
(*   - the host environment of transactions and validity predicates        *)
(*     (apps/src/bin/anoma-node/vm/host_env/mod.rs),                       *)
(*   - the ABCI -> ABCI++ shim (apps/src/lib/node/ledger/shims),           *)
(*   - the shell's request dispatch (apps/src/lib/node/ledger/mod.rs).     *)
(* The write log, the storage, the gas meters and the shell's handlers     *)
(* (process_proposal, finalize_block, commit, query, mempool_validate,     *)
(* reset_queue) are not part of the sources at hand: they are modelled     *)
(* from the specification (sections 3, 4.1-4.5).                           *)
(***************************************************************************)
EXTENDS Integers, Sequences, FiniteSets, TLC

(***************************************************************************)
(* Bounds of the model.                                                    *)
(***************************************************************************)
\* Commits in one behaviour of Spec.
MaxHeight == 2
\* DeliverTx requests in one behaviour of Spec.
MaxDeliver == 3
\* Host calls of one guest invocation of HostSpec.
MaxCalls == 3
\* Host calls of one behaviour of IterSpec.
MaxIterCalls == 5

(***************************************************************************)
(* Options: None, or Some(x).                                              *)
(***************************************************************************)
None == <<>>
Some(x) == <<x>>
IsSome(o) == o # <<>>
Unwrap(o) == o[1]

(***************************************************************************)
(* Data: values are byte strings; keys are sequences of segments, written  *)
(* by the guest as slash-delimited strings.                                *)
(***************************************************************************)
\* A validity predicate that accepts every transaction.
VpAcceptAll == <<1>>
\* A validity predicate that accepts iff the value of key "k" is the same
\* in the pre and the post view.
VpKeepK == <<2, 2>>
\* Any other code (here the empty one) rejects.
Values == {<<>>, VpAcceptAll, VpKeepK}

\* What the guest can pass as a raw address; "" does not parse.
RawAddresses == {"a", "b", "c", "b.e", "c.d", ""}
\* Hashed addresses.
Addresses == {"A", "B", "C", "BE", "CD"}

Key_parse(s) ==
    CASE s = "k"    -> Some(<<"k">>)
      [] s = "A"    -> Some(<<"A">>)
      [] s = "B"    -> Some(<<"B">>)
      [] s = "C"    -> Some(<<"C">>)
      [] s = "A/?"  -> Some(<<"A", "?">>)
      [] s = "B/?"  -> Some(<<"B", "?">>)
      [] s = "C/?"  -> Some(<<"C", "?">>)
      [] s = "BE/?" -> Some(<<"BE", "?">>)
      [] s = "CD/?" -> Some(<<"CD", "?">>)
      [] s = "BE"   -> Some(<<"BE">>)
      [] s = "BE/x" -> Some(<<"BE", "x">>)
      [] s = "BE/y" -> Some(<<"BE", "y">>)
      [] OTHER      -> None

Key_push(key, seg) == Append(key, seg)

Key_to_string(key) ==
    CASE key = <<"k">>       -> "k"
      [] key = <<"A", "?">>  -> "A/?"
      [] key = <<"B", "?">>  -> "B/?"
      [] key = <<"C", "?">>  -> "C/?"
      [] key = <<"BE", "?">> -> "BE/?"
      [] key = <<"CD", "?">> -> "CD/?"
      [] key = <<"A">>       -> "A"
      [] key = <<"B">>       -> "B"
      [] key = <<"C">>       -> "C"
      [] key = <<"BE">>      -> "BE"
      [] key = <<"BE", "x">> -> "BE/x"
      [] key = <<"BE", "y">> -> "BE/y"
      [] OTHER               -> ""

Key_len(key) == Len(Key_to_string(key))

Keys ==
    {Unwrap(Key_parse(s)) : s \in {"k", "A/?", "B/?", "C/?", "BE/?", "CD/?", "BE/x", "BE/y"}}

\* The keys in the order of the committed backend (the order of their strings).
KeyOrder ==
    <<<<"A", "?">>, <<"B", "?">>, <<"BE", "?">>, <<"BE", "x">>, <<"BE", "y">>,
      <<"C", "?">>, <<"CD", "?">>, <<"k">>>>

\* Prefix comparison of keys, segment by segment.
Key_has_prefix(key, prefix) ==
    Len(prefix) <= Len(key) /\ SubSeq(key, 1, Len(prefix)) = prefix

RawAddress_parse(s) == IF s \in RawAddresses \ {""} THEN Some(s) ELSE None

RawAddress_parent(raw) ==
    CASE raw = "b.e" -> "b"
      [] raw = "c.d" -> "c"
      [] OTHER       -> ""

RawAddress_hash(raw) ==
    CASE raw = "a"   -> "A"
      [] raw = "b"   -> "B"
      [] raw = "c"   -> "C"
      [] raw = "b.e" -> "BE"
      [] raw = "c.d" -> "CD"
      [] OTHER       -> "ROOT"

\* The reserved key under which an address's validity predicate is stored.
VpKey(addr) == <<addr, "?">>

(***************************************************************************)
(* Gas meters (specification 4.1).                                         *)
(***************************************************************************)
\* The limit of the transaction (block) gas meter.
TxGasLimit == 100
\* The limit of a validity predicate's gas meter.
VpGasLimit == 100

\* add(used): the counter is incremented; the result is an error once the
\* cumulative use exceeds the limit.
GasMeter_add(counter, limit, used) ==
    [counter |-> counter + used, ok |-> counter + used <= limit]

(***************************************************************************)
(* Storage (committed state): a function from Keys to optional values.     *)
(***************************************************************************)
Storage_read(storage, key) ==
    [value |-> storage[key],
     gas |-> Key_len(key) + (IF IsSome(storage[key]) THEN Len(Unwrap(storage[key])) ELSE 0)]

Storage_has_key(storage, key) ==
    [present |-> IsSome(storage[key]), gas |-> Key_len(key)]

Storage_exists(storage, addr) ==
    [exists |-> addr \in Addresses /\ IsSome(storage[VpKey(addr)]),
     gas |-> Len(addr)]

\* The entries of a scan, in key order: the string of the key, the value and
\* the gas of reading the entry.
Scanned(storage, keys) ==
    [i \in DOMAIN keys |->
        [key |-> Key_to_string(keys[i]), val |-> Unwrap(storage[keys[i]]),
         gas |-> Key_len(keys[i]) + Len(Unwrap(storage[keys[i]]))]]

\* iter_prefix(prefix): a scan of the keys the storage holds under the prefix.
Storage_iter_prefix(storage, prefix) ==
    LET Under(key) == Key_has_prefix(key, prefix) /\ IsSome(storage[key])
    IN  [iter |-> Scanned(storage, SelectSeq(KeyOrder, Under)), gas |-> Len(prefix)]

(***************************************************************************)
(* PrefixIterators (specification 4.3): the iterators a guest invocation   *)
(* has opened, each the entries its scan still has to give; the id of an   *)
(* iterator is its position, counted from 0.                               *)
(***************************************************************************)
PrefixIterators_insert(iterators, iter) ==
    [iterators |-> Append(iterators, iter), id |-> Len(iterators)]

PrefixIterators_next(iterators, id) ==
    IF id + 1 \in DOMAIN iterators /\ iterators[id + 1] # <<>>
    THEN [item |-> Some(Head(iterators[id + 1])),
          iterators |-> [iterators EXCEPT ![id + 1] = Tail(@)]]
    ELSE [item |-> None, iterators |-> iterators]

(***************************************************************************)
(* WriteLog (specification 4.2): a function from the staged keys to their  *)
(* modification.                                                           *)
(***************************************************************************)
ModWrite(value) == [tag |-> "Write", value |-> value, parent |-> ""]
ModDelete == [tag |-> "Delete", value |-> <<>>, parent |-> ""]
ModInitAccount(parent, vp) == [tag |-> "InitAccount", value |-> vp, parent |-> parent]

EmptyWriteLog == [key \in {} |-> ModDelete]

Upsert(log, key, mod) ==
    [x \in DOMAIN log \cup {key} |-> IF x = key THEN mod ELSE log[x]]

WriteLog_read(log, key) ==
    IF key \in DOMAIN log
    THEN [mod |-> Some(log[key]), gas |-> Key_len(key) + Len(log[key].value)]
    ELSE [mod |-> None, gas |-> Key_len(key)]

WriteLog_write(log, key, value) ==
    [log |-> Upsert(log, key, ModWrite(value)), gas |-> Key_len(key) + Len(value)]

WriteLog_delete(log, key) ==
    [log |-> Upsert(log, key, ModDelete), gas |-> Key_len(key)]

WriteLog_init_account(log, addr, parent, vp) ==
    [log |-> Upsert(log, VpKey(addr), ModInitAccount(parent, vp)),
     gas |-> Key_len(VpKey(addr)) + Len(vp)]

(***************************************************************************)
(* Guest memory: a string or byte argument is Some(data) when the pointer  *)
(* and length are inside the guest's memory and None when they are not; a  *)
(* result pointer is in bounds or not.                                     *)
(***************************************************************************)
GoodPtr == "in_bounds"
BadPtr == "out_of_bounds"

Memory_read_string(arg) ==
    IF IsSome(arg) THEN [ok |-> TRUE, data |-> Unwrap(arg), gas |-> Len(Unwrap(arg))]
    ELSE [ok |-> FALSE, data |-> "", gas |-> 0]

Memory_read_bytes(arg) ==
    IF IsSome(arg) THEN [ok |-> TRUE, data |-> Unwrap(arg), gas |-> Len(Unwrap(arg))]
    ELSE [ok |-> FALSE, data |-> <<>>, gas |-> 0]

Memory_write_bytes(ptr, bytes) == [ok |-> ptr = GoodPtr, gas |-> Len(bytes)]

\* KeyVal { key, val }.try_to_vec(): the key and the value, each behind its
\* length.
KeyVal_try_to_vec(key, val) == <<Len(key), key, Len(val)>> \o val

(***************************************************************************)
(* The state.                                                              *)
(***************************************************************************)
VARIABLES
    \* HostSpec: one guest invocation of the transaction environment and the
    \* predicate environments that read its write log.
    env,            \* the TxEnv of the running transaction
    vp_env,         \* the VpEnv of a validity predicate reading env's write log
    phase,          \* "tx": the transaction runs; "vp": a predicate runs
    hist            \* the host calls made so far, each with what it returned

host_vars == <<env, vp_env, phase, hist>>

VARIABLES
    \* Spec: the node, that is the shim (AbcippShim) over the shell.
    node,                   \* "running", or "panicked" once a handler panicked
    begin_block_request,    \* AbcippShim.begin_block_request: Option<BeginBlock>
    block_txs,              \* AbcippShim.block_txs: Vec<ProcessedTx>
    shell,                  \* the Shell: its storage, queue and buffered runs
    forwarded,              \* the Shell operations the last request invoked
    last_req,               \* the last request of the consensus engine
    rsp,                    \* the response to the last request
    delivered               \* the number of DeliverTx requests served

node_vars ==
    <<node, begin_block_request, block_txs, shell, forwarded, last_req, rsp, delivered>>

VARIABLES
    \* RunSpec: the process of the ledger node (run and run_shell).
    threads,                \* the threads of run(), their channels and handles
    server,                 \* the ABCI server over the shim: its buffer and calls
    \* TokenSpec: one run of the token's native validity predicate.
    token,                  \* the message, the balances and the verdict
    \* ParSpec: the predicates of one transaction, run side by side.
    sandbox,                \* the shared views and the run of each predicate
    \* AuctionSpec: the auction matchmaker.
    matchmaker              \* AuctionMaker.auctions_map and the clock

run_vars == <<threads, server, token, sandbox, matchmaker>>

vars == <<env, vp_env, phase, hist,
          node, begin_block_request, block_txs, shell, forwarded, last_req, rsp, delivered,
          threads, server, token, sandbox, matchmaker>>

(***************************************************************************)
(* TxEnv (host_env/mod.rs:23-37): the storage, the write log, the          *)
(* verifiers, the gas meter and the iterators of one transaction run.      *)
(* aborted is "" while the guest runs and names the fault once the host    *)
(* has stopped the invocation (a panic of the host function); ret is the   *)
(* value the last host call returned to the guest and result_buf what it   *)
(* wrote to the guest's result buffer.                                     *)
(***************************************************************************)
TxEnv(storage) ==
    [storage |-> storage, write_log |-> EmptyWriteLog, verifiers |-> {},
     gas_meter |-> 0, iterators |-> <<>>, aborted |-> "",
     ret |-> None, result_buf |-> None]

Running(e) == e.aborted = ""
Fault(e, why) == IF Running(e) THEN [e EXCEPT !.aborted = why, !.ret = None] ELSE e
Return(e, r) == IF Running(e) THEN [e EXCEPT !.ret = r] ELSE e
\* A host call starts with no return value and an untouched result buffer.
Enter(e) == [e EXCEPT !.ret = None, !.result_buf = None]

\* A variant of tx_add_gas that counts the gas and lets the guest run on when
\* the limit is exceeded.
tx_add_gas_unmetered(e, used) ==
    IF ~Running(e) THEN e
    ELSE [e EXCEPT !.gas_meter = GasMeter_add(e.gas_meter, TxGasLimit, used).counter]

tx_add_gas(e, used) ==
    IF ~Running(e) THEN e
    ELSE LET r == GasMeter_add(e.gas_meter, TxGasLimit, used)
         IN  IF r.ok THEN [e EXCEPT !.gas_meter = r.counter]
             ELSE Fault([e EXCEPT !.gas_meter = r.counter], "gas")

\* The return conventions of the reads: 1 or the length when the key is
\* found, 0 or -1 when it is not.
ReadFound(varlen, bytes) == IF varlen THEN Some(Len(bytes)) ELSE Some(1)
\* A variant of ReadMissing under which the variable-length calls report a
\* missing key as the fixed-size calls do.
ReadMissing_zero(varlen) == Some(0)

ReadMissing(varlen) == IF varlen THEN Some(-1) ELSE Some(0)

\* The key or address an argument parses to; an empty one when it does not.
Parsed(parsed, default) == IF IsSome(parsed) THEN Unwrap(parsed) ELSE default
ArgKey(key_arg) == Parsed(Key_parse(Memory_read_string(key_arg).data), <<>>)

\* A variant of tx_read_memory that lets the call go on, with nothing read,
\* when the argument is outside the guest's memory.
tx_read_memory_lenient(e, m) ==
    IF ~Running(e) THEN e ELSE tx_add_gas(e, m.gas)

\* memory.read_string / read_bytes and the gas charge for it: m is what the
\* memory returned.
tx_read_memory(e, m) ==
    IF ~Running(e) THEN e
    ELSE IF m.ok THEN tx_add_gas(e, m.gas) ELSE Fault(e, "memory")

\* Key::parse / RawAddress::parse: .expect stops the invocation on an error.
tx_parse(e, parsed) ==
    IF Running(e) /\ ~IsSome(parsed) THEN Fault(e, "parse") ELSE e

\* memory.write_bytes(result_ptr, bytes), the gas charge for it and the return.
tx_write_result(e, result_ptr, bytes, r) ==
    IF ~Running(e) THEN e
    ELSE IF ~Memory_write_bytes(result_ptr, bytes).ok THEN Fault(e, "memory")
    ELSE Return(tx_add_gas([e EXCEPT !.result_buf = Some(bytes)],
                           Memory_write_bytes(result_ptr, bytes).gas), r)

\* memory.read_string(key_ptr, key_len), the gas charge for it and Key::parse.
tx_read_key(e, key_arg) ==
    tx_parse(tx_read_memory(e, Memory_read_string(key_arg)),
             Key_parse(Memory_read_string(key_arg).data))

\* storage.read found nothing in the write log: value is what the storage
\* holds under the key, its gas charged in e.
tx_read_storage(e, value, result_ptr, varlen) ==
    IF ~Running(e) THEN e
    ELSE IF IsSome(value)
         THEN tx_write_result(e, result_ptr, Unwrap(value),
                              ReadFound(varlen, Unwrap(value)))
         ELSE Return(e, ReadMissing(varlen))

\* The match on what write_log.read returned (mod), its gas charged in e.
tx_read_log(e, mod, key, result_ptr, varlen) ==
    IF ~Running(e) THEN e
    ELSE IF IsSome(mod)
         THEN CASE Unwrap(mod).tag = "Write" ->
                     tx_write_result(e, result_ptr, Unwrap(mod).value,
                                     ReadFound(varlen, Unwrap(mod).value))
                [] Unwrap(mod).tag = "Delete" -> Return(e, ReadMissing(varlen))
                [] Unwrap(mod).tag = "InitAccount" ->
                     tx_write_result(e, result_ptr, Unwrap(mod).value,
                                     ReadFound(varlen, Unwrap(mod).value))
         ELSE tx_read_storage(tx_add_gas(e, Storage_read(e.storage, key).gas),
                              Storage_read(e.storage, key).value, result_ptr, varlen)

\* A variant of tx_read that does not look at the write log: under it a read
\* does not see the writes of its own transaction.
tx_read_committed(e, key, result_ptr, varlen) ==
    IF ~Running(e) THEN e
    ELSE tx_read_log(tx_add_gas(e, WriteLog_read(e.write_log, key).gas),
                     None, key, result_ptr, varlen)

\* The write-log-then-storage read of tx_storage_read and tx_storage_read_varlen
\* once the key is parsed; varlen selects the return convention.
tx_read(e, key, result_ptr, varlen) ==
    IF ~Running(e) THEN e
    ELSE tx_read_log(tx_add_gas(e, WriteLog_read(e.write_log, key).gas),
                     WriteLog_read(e.write_log, key).mod, key, result_ptr, varlen)

tx_storage_read(e, key_arg, result_ptr) ==
    tx_read(tx_read_key(Enter(e), key_arg), ArgKey(key_arg), result_ptr, FALSE)

tx_storage_read_varlen(e, key_arg, result_ptr) ==
    tx_read(tx_read_key(Enter(e), key_arg), ArgKey(key_arg), result_ptr, TRUE)

\* The match of tx_storage_has_key on what write_log.read returned.
tx_has_key_log(e, mod, key) ==
    IF ~Running(e) THEN e
    ELSE IF IsSome(mod)
         THEN CASE Unwrap(mod).tag = "Write" -> Return(e, Some(1))
                [] Unwrap(mod).tag = "Delete" -> Return(e, Some(0))
                [] Unwrap(mod).tag = "InitAccount" -> Return(e, Some(1))
         ELSE Return(tx_add_gas(e, Storage_has_key(e.storage, key).gas),
                     IF Storage_has_key(e.storage, key).present THEN Some(1) ELSE Some(0))

tx_has_key(e, key) ==
    IF ~Running(e) THEN e
    ELSE tx_has_key_log(tx_add_gas(e, WriteLog_read(e.write_log, key).gas),
                        WriteLog_read(e.write_log, key).mod, key)

tx_storage_has_key(e, key_arg) ==
    tx_has_key(tx_read_key(Enter(e), key_arg), ArgKey(key_arg))

\* A variant of tx_write_log that also writes the value through to the
\* storage: under it the execution of a transaction changes committed state.
tx_write_through(e, key, value) ==
    IF ~Running(e) THEN e
    ELSE tx_add_gas([e EXCEPT !.write_log = WriteLog_write(e.write_log, key, value).log,
                              !.storage[key] = Some(value)],
                    WriteLog_write(e.write_log, key, value).gas)

\* write_log.write and the gas charge for it: the write log is changed before
\* the gas of the write is charged.
tx_write_log(e, key, value) ==
    IF ~Running(e) THEN e
    ELSE tx_add_gas([e EXCEPT !.write_log = WriteLog_write(e.write_log, key, value).log],
                    WriteLog_write(e.write_log, key, value).gas)

\* The key is read and charged, then the value, then the key is parsed.
tx_storage_write(e, key_arg, val_arg) ==
    tx_write_log(
        tx_parse(tx_read_memory(tx_read_memory(Enter(e), Memory_read_string(key_arg)),
                                Memory_read_bytes(val_arg)),
                 Key_parse(Memory_read_string(key_arg).data)),
        ArgKey(key_arg), Memory_read_bytes(val_arg).data)

\* A variant of tx_delete_log that drops the staged entry of the key instead
\* of staging a Delete: under it a deleted key falls through to the storage.
tx_delete_unstaged(e, key) ==
    IF ~Running(e) THEN e
    ELSE Return(tx_add_gas([e EXCEPT !.write_log =
                                [x \in DOMAIN e.write_log \ {key} |-> e.write_log[x]]],
                           WriteLog_delete(e.write_log, key).gas), Some(1))

\* write_log.delete, the gas charge for it and the return of 1.
tx_delete_log(e, key) ==
    IF ~Running(e) THEN e
    ELSE Return(tx_add_gas([e EXCEPT !.write_log = WriteLog_delete(e.write_log, key).log],
                           WriteLog_delete(e.write_log, key).gas), Some(1))

tx_storage_delete(e, key_arg) ==
    tx_delete_log(tx_read_key(Enter(e), key_arg), ArgKey(key_arg))

\* verifiers.insert(addr.hash()): the verifier is inserted before the gas of
\* the insertion (addr_len) is charged.
tx_verifiers_insert(e, addr, addr_len) ==
    IF ~Running(e) THEN e
    ELSE tx_add_gas([e EXCEPT !.verifiers = @ \cup {RawAddress_hash(addr)}], addr_len)

tx_insert_verifier(e, addr_arg) ==
    tx_verifiers_insert(
        tx_parse(tx_read_memory(Enter(e), Memory_read_string(addr_arg)),
                 RawAddress_parse(Memory_read_string(addr_arg).data)),
        Parsed(RawAddress_parse(Memory_read_string(addr_arg).data), ""),
        Len(Memory_read_string(addr_arg).data))

\* The address is read, charged and parsed as a key, then the code is read and
\* charged, then the code is staged under the key of the predicate.
tx_update_validity_predicate(e, addr_arg, code_arg) ==
    tx_write_log(
        tx_read_memory(tx_parse(tx_read_memory(Enter(e), Memory_read_string(addr_arg)),
                                Key_parse(Memory_read_string(addr_arg).data)),
                       Memory_read_bytes(code_arg)),
        Key_push(ArgKey(addr_arg), "?"), Memory_read_bytes(code_arg).data)

\* A variant of tx_parent_exists that is also satisfied by a predicate of the
\* parent that the transaction has staged.
tx_parent_exists_staged(e, parent_addr_hash) ==
    IF ~Running(e) THEN e
    ELSE IF \/ Storage_exists(e.storage, parent_addr_hash).exists
            \/ VpKey(parent_addr_hash) \in DOMAIN e.write_log
         THEN tx_add_gas(e, Storage_exists(e.storage, parent_addr_hash).gas)
         ELSE Fault(tx_add_gas(e, Storage_exists(e.storage, parent_addr_hash).gas),
                    "parent")

\* storage.exists(&parent_addr_hash), the gas charge for it, and the stop of
\* the invocation when the parent does not exist.
tx_parent_exists(e, parent_addr_hash) ==
    IF ~Running(e) THEN e
    ELSE IF Storage_exists(e.storage, parent_addr_hash).exists
         THEN tx_add_gas(e, Storage_exists(e.storage, parent_addr_hash).gas)
         ELSE Fault(tx_add_gas(e, Storage_exists(e.storage, parent_addr_hash).gas),
                    "parent")

\* A variant of tx_init_account_log that stages the account without making
\* the parent a verifier.
tx_init_account_log_unverified(e, addr, parent_addr_hash, code) ==
    IF ~Running(e) THEN e
    ELSE tx_add_gas(
            [e EXCEPT !.write_log = WriteLog_init_account(e.write_log, RawAddress_hash(addr),
                                                          parent_addr_hash, code).log],
            WriteLog_init_account(e.write_log, RawAddress_hash(addr),
                                  parent_addr_hash, code).gas)

\* write_log.init_account and verifiers.insert(parent) happen before the gas
\* of the staging is charged.
tx_init_account_log(e, addr, parent_addr_hash, code) ==
    IF ~Running(e) THEN e
    ELSE tx_add_gas(
            [e EXCEPT !.write_log = WriteLog_init_account(e.write_log, RawAddress_hash(addr),
                                                          parent_addr_hash, code).log,
                      !.verifiers = @ \cup {parent_addr_hash}],
            WriteLog_init_account(e.write_log, RawAddress_hash(addr),
                                  parent_addr_hash, code).gas)

\* The account an _init_account call names, and the hash of its parent.
ArgAddr(addr_arg) == Parsed(RawAddress_parse(Memory_read_string(addr_arg).data), "")
ArgParent(addr_arg) == RawAddress_hash(RawAddress_parent(ArgAddr(addr_arg)))

\* The address and the code are read and charged, the address is parsed, and
\* the parent must exist in the (committed) storage.
tx_init_account(e, addr_arg, code_arg) ==
    tx_init_account_log(
        tx_parent_exists(
            tx_parse(tx_read_memory(tx_read_memory(Enter(e), Memory_read_string(addr_arg)),
                                    Memory_read_bytes(code_arg)),
                     RawAddress_parse(Memory_read_string(addr_arg).data)),
            ArgParent(addr_arg)),
        ArgAddr(addr_arg), ArgParent(addr_arg), Memory_read_bytes(code_arg).data)

\* used_gas as u64: the cast of the guest's i32 amount wraps a negative
\* amount around the width of the unsigned word.  The word of the model has
\* 20 bits where the code's has 64: every amount and limit of the model is
\* far below 2^20, as the code's are below 2^64.
U64(n) == n % (2^20)

\* A variant of tx_charge_gas that charges the signed amount as it is.
tx_charge_gas_signed(e, used_gas) == tx_add_gas(Enter(e), used_gas)

\* The "gas" import: the guest asks for an amount of gas to be charged.
tx_charge_gas(e, used_gas) == tx_add_gas(Enter(e), U64(used_gas))

\* A variant of tx_iter_insert that puts the scan in the place of the last
\* iterator opened and gives its id again.
tx_iter_insert_reusing(e, iter) ==
    IF ~Running(e) THEN e
    ELSE IF e.iterators = <<>>
         THEN Return([e EXCEPT !.iterators = <<iter>>], Some(0))
         ELSE Return([e EXCEPT !.iterators[Len(e.iterators)] = iter],
                     Some(Len(e.iterators) - 1))

\* iterators.insert(iter).id(): iter is the scan the storage opened, its gas
\* charged in e.
tx_iter_insert(e, iter) ==
    IF ~Running(e) THEN e
    ELSE Return([e EXCEPT !.iterators = PrefixIterators_insert(e.iterators, iter).iterators],
                Some(PrefixIterators_insert(e.iterators, iter).id))

\* The prefix is read, charged and parsed, then the scan is opened and charged.
tx_iter_prefix(e, prefix) ==
    IF ~Running(e) THEN e
    ELSE tx_iter_insert(tx_add_gas(e, Storage_iter_prefix(e.storage, prefix).gas),
                        Storage_iter_prefix(e.storage, prefix).iter)

tx_storage_iter_prefix(e, prefix_arg) ==
    tx_iter_prefix(tx_read_key(Enter(e), prefix_arg), ArgKey(prefix_arg))

RECURSIVE tx_iter_next(_, _, _, _)

\* A variant of tx_iter_match that reports not found at an entry the write
\* log hides instead of going on to the next one.
tx_iter_match_no_skip(e, mod, item, iter_id, result_ptr, varlen) ==
    IF ~Running(e) THEN e
    ELSE IF IsSome(mod)
         THEN IF Unwrap(mod).tag = "Write"
              THEN tx_write_result(e, result_ptr,
                                   KeyVal_try_to_vec(item.key, Unwrap(mod).value),
                                   ReadFound(varlen, KeyVal_try_to_vec(item.key, Unwrap(mod).value)))
              ELSE Return(e, ReadMissing(varlen))
         ELSE tx_write_result(e, result_ptr, KeyVal_try_to_vec(item.key, item.val),
                              ReadFound(varlen, KeyVal_try_to_vec(item.key, item.val)))

\* The match of the loop body on what write_log.read returned (mod) for the
\* entry the scan gave (item): a written value replaces the entry's value, a
\* deleted key and a new account's predicate are passed over.
tx_iter_match(e, mod, item, iter_id, result_ptr, varlen) ==
    IF ~Running(e) THEN e
    ELSE IF IsSome(mod)
         THEN CASE Unwrap(mod).tag = "Write" ->
                     tx_write_result(e, result_ptr,
                                     KeyVal_try_to_vec(item.key, Unwrap(mod).value),
                                     ReadFound(varlen, KeyVal_try_to_vec(item.key, Unwrap(mod).value)))
                [] Unwrap(mod).tag = "Delete" -> tx_iter_next(e, iter_id, result_ptr, varlen)
                [] Unwrap(mod).tag = "InitAccount" -> tx_iter_next(e, iter_id, result_ptr, varlen)
         ELSE tx_write_result(e, result_ptr, KeyVal_try_to_vec(item.key, item.val),
                              ReadFound(varlen, KeyVal_try_to_vec(item.key, item.val)))

\* The loop body: the key of the entry is parsed, the write log is read, and
\* the gas of the entry and of the write log's read is charged at once.
tx_iter_item(e, item, iter_id, result_ptr, varlen) ==
    IF ~IsSome(Key_parse(item.key)) THEN Fault(e, "parse")
    ELSE tx_iter_match(
            tx_add_gas(e, item.gas + WriteLog_read(e.write_log, Unwrap(Key_parse(item.key))).gas),
            WriteLog_read(e.write_log, Unwrap(Key_parse(item.key))).mod,
            item, iter_id, result_ptr, varlen)

\* while let Some(..) = iterators.next(iter_id): the iterator is advanced by
\* every turn of the loop; when it has no entry left the call reports not
\* found.  varlen selects the return convention.
tx_iter_next(e, iter_id, result_ptr, varlen) ==
    IF ~Running(e) THEN e
    ELSE IF IsSome(PrefixIterators_next(e.iterators, iter_id).item)
         THEN tx_iter_item(
                [e EXCEPT !.iterators = PrefixIterators_next(e.iterators, iter_id).iterators],
                Unwrap(PrefixIterators_next(e.iterators, iter_id).item),
                iter_id, result_ptr, varlen)
         ELSE Return(e, ReadMissing(varlen))

tx_storage_iter_next(e, iter_id, result_ptr) ==
    tx_iter_next(Enter(e), iter_id, result_ptr, FALSE)

tx_storage_iter_next_varlen(e, iter_id, result_ptr) ==
    tx_iter_next(Enter(e), iter_id, result_ptr, TRUE)

(***************************************************************************)
(* VpEnv (host_env/mod.rs:71-88): the address of the predicate's owner,    *)
(* read-only storage and write log, the predicate's own gas meter.         *)
(***************************************************************************)
VpEnv(addr, storage, write_log) ==
    [addr |-> addr, storage |-> storage, write_log |-> write_log,
     gas_meter |-> 0, iterators |-> <<>>, aborted |-> "",
     ret |-> None, result_buf |-> None]

vp_add_gas(e, used) ==
    IF ~Running(e) THEN e
    ELSE LET r == GasMeter_add(e.gas_meter, VpGasLimit, used)
         IN  IF r.ok THEN [e EXCEPT !.gas_meter = r.counter]
             ELSE Fault([e EXCEPT !.gas_meter = r.counter], "gas")

vp_read_memory(e, m) ==
    IF ~Running(e) THEN e
    ELSE IF m.ok THEN vp_add_gas(e, m.gas) ELSE Fault(e, "memory")

vp_write_result(e, result_ptr, bytes, r) ==
    IF ~Running(e) THEN e
    ELSE IF ~Memory_write_bytes(result_ptr, bytes).ok THEN Fault(e, "memory")
    ELSE Return(vp_add_gas([e EXCEPT !.result_buf = Some(bytes)],
                           Memory_write_bytes(result_ptr, bytes).gas), r)

vp_read_key(e, key_arg) ==
    tx_parse(vp_read_memory(e, Memory_read_string(key_arg)),
             Key_parse(Memory_read_string(key_arg).data))

\* The match on what storage.read returned (value), its gas charged in e.
vp_read_storage(e, value, result_ptr, varlen) ==
    IF ~Running(e) THEN e
    ELSE IF IsSome(value)
         THEN vp_write_result(e, result_ptr, Unwrap(value),
                              ReadFound(varlen, Unwrap(value)))
         ELSE Return(e, ReadMissing(varlen))

\* A variant of vp_read_pre that prefers the value staged in the write log:
\* under it the pre view is not isolated from the transaction.
vp_read_pre_staged(e, key, result_ptr, varlen) ==
    IF ~Running(e) THEN e
    ELSE vp_read_storage(vp_add_gas(e, Storage_read(e.storage, key).gas),
                         IF key \in DOMAIN e.write_log
                         THEN Some(e.write_log[key].value)
                         ELSE Storage_read(e.storage, key).value,
                         result_ptr, varlen)

\* vp_storage_read_pre and vp_storage_read_pre_varlen: the storage only.
vp_read_pre(e, key, result_ptr, varlen) ==
    IF ~Running(e) THEN e
    ELSE vp_read_storage(vp_add_gas(e, Storage_read(e.storage, key).gas),
                         Storage_read(e.storage, key).value, result_ptr, varlen)

vp_storage_read_pre(e, key_arg, result_ptr) ==
    vp_read_pre(vp_read_key(Enter(e), key_arg), ArgKey(key_arg), result_ptr, FALSE)

vp_storage_read_pre_varlen(e, key_arg, result_ptr) ==
    vp_read_pre(vp_read_key(Enter(e), key_arg), ArgKey(key_arg), result_ptr, TRUE)

\* The match on what write_log.read returned (mod), its gas charged in e.
vp_read_log(e, mod, key, result_ptr, varlen) ==
    IF ~Running(e) THEN e
    ELSE IF IsSome(mod)
         THEN CASE Unwrap(mod).tag = "Write" ->
                     vp_write_result(e, result_ptr, Unwrap(mod).value,
                                     ReadFound(varlen, Unwrap(mod).value))
                [] Unwrap(mod).tag = "Delete" -> Return(e, ReadMissing(varlen))
                [] Unwrap(mod).tag = "InitAccount" ->
                     vp_write_result(e, result_ptr, Unwrap(mod).value,
                                     ReadFound(varlen, Unwrap(mod).value))
         ELSE vp_read_storage(vp_add_gas(e, Storage_read(e.storage, key).gas),
                              Storage_read(e.storage, key).value, result_ptr, varlen)

\* A variant of vp_read_post that takes the entry out of the write log when
\* it reads it.
vp_read_post_taking(e, key, result_ptr, varlen) ==
    IF ~Running(e) THEN e
    ELSE [vp_read_log(vp_add_gas(e, WriteLog_read(e.write_log, key).gas),
                      WriteLog_read(e.write_log, key).mod, key, result_ptr, varlen)
            EXCEPT !.write_log =
                [k \in DOMAIN e.write_log \ {key} |-> e.write_log[k]]]

\* vp_storage_read_post and vp_storage_read_post_varlen: the write log first,
\* the storage when the write log has no entry.
vp_read_post(e, key, result_ptr, varlen) ==
    IF ~Running(e) THEN e
    ELSE vp_read_log(vp_add_gas(e, WriteLog_read(e.write_log, key).gas),
                     WriteLog_read(e.write_log, key).mod, key, result_ptr, varlen)

vp_storage_read_post(e, key_arg, result_ptr) ==
    vp_read_post(vp_read_key(Enter(e), key_arg), ArgKey(key_arg), result_ptr, FALSE)

vp_storage_read_post_varlen(e, key_arg, result_ptr) ==
    vp_read_post(vp_read_key(Enter(e), key_arg), ArgKey(key_arg), result_ptr, TRUE)

vp_has_key_pre(e, key) ==
    IF ~Running(e) THEN e
    ELSE Return(vp_add_gas(e, Storage_has_key(e.storage, key).gas),
                IF Storage_has_key(e.storage, key).present THEN Some(1) ELSE Some(0))

vp_storage_has_key_pre(e, key_arg) ==
    vp_has_key_pre(vp_read_key(Enter(e), key_arg), ArgKey(key_arg))

\* The match of vp_storage_has_key_post on what write_log.read returned.
vp_has_key_log(e, mod, key) ==
    IF ~Running(e) THEN e
    ELSE IF IsSome(mod)
         THEN CASE Unwrap(mod).tag = "Write" -> Return(e, Some(1))
                [] Unwrap(mod).tag = "Delete" -> Return(e, Some(0))
                [] Unwrap(mod).tag = "InitAccount" -> Return(e, Some(1))
         ELSE Return(vp_add_gas(e, Storage_has_key(e.storage, key).gas),
                     IF Storage_has_key(e.storage, key).present THEN Some(1) ELSE Some(0))

vp_has_key_post(e, key) ==
    IF ~Running(e) THEN e
    ELSE vp_has_key_log(vp_add_gas(e, WriteLog_read(e.write_log, key).gas),
                        WriteLog_read(e.write_log, key).mod, key)

vp_storage_has_key_post(e, key_arg) ==
    vp_has_key_post(vp_read_key(Enter(e), key_arg), ArgKey(key_arg))

\* A variant of vp_charge_gas that charges the signed amount as it is.
vp_charge_gas_signed(e, used_gas) == vp_add_gas(Enter(e), used_gas)

vp_charge_gas(e, used_gas) == vp_add_gas(Enter(e), U64(used_gas))

vp_iter_insert(e, iter) ==
    IF ~Running(e) THEN e
    ELSE Return([e EXCEPT !.iterators = PrefixIterators_insert(e.iterators, iter).iterators],
                Some(PrefixIterators_insert(e.iterators, iter).id))

vp_iter_prefix(e, prefix) ==
    IF ~Running(e) THEN e
    ELSE vp_iter_insert(vp_add_gas(e, Storage_iter_prefix(e.storage, prefix).gas),
                        Storage_iter_prefix(e.storage, prefix).iter)

vp_storage_iter_prefix(e, prefix_arg) ==
    vp_iter_prefix(vp_read_key(Enter(e), prefix_arg), ArgKey(prefix_arg))

\* A variant of vp_iter_pre_next that reads the entry at the front of the scan
\* and leaves it there.
vp_iter_pre_next_peeking(e, iter_id, result_ptr, varlen) ==
    IF ~Running(e) THEN e
    ELSE IF IsSome(PrefixIterators_next(e.iterators, iter_id).item)
         THEN vp_write_result(
                vp_add_gas(e, Unwrap(PrefixIterators_next(e.iterators, iter_id).item).gas),
                result_ptr,
                KeyVal_try_to_vec(Unwrap(PrefixIterators_next(e.iterators, iter_id).item).key,
                                  Unwrap(PrefixIterators_next(e.iterators, iter_id).item).val),
                ReadFound(varlen,
                    KeyVal_try_to_vec(Unwrap(PrefixIterators_next(e.iterators, iter_id).item).key,
                                      Unwrap(PrefixIterators_next(e.iterators, iter_id).item).val)))
         ELSE Return(e, ReadMissing(varlen))

\* if let Some(..) = iterators.next(iter_id): the entry of the storage, as it
\* is; the write log is not looked at.
vp_iter_pre_next(e, iter_id, result_ptr, varlen) ==
    IF ~Running(e) THEN e
    ELSE IF IsSome(PrefixIterators_next(e.iterators, iter_id).item)
         THEN vp_write_result(
                vp_add_gas([e EXCEPT !.iterators =
                                PrefixIterators_next(e.iterators, iter_id).iterators],
                           Unwrap(PrefixIterators_next(e.iterators, iter_id).item).gas),
                result_ptr,
                KeyVal_try_to_vec(Unwrap(PrefixIterators_next(e.iterators, iter_id).item).key,
                                  Unwrap(PrefixIterators_next(e.iterators, iter_id).item).val),
                ReadFound(varlen,
                    KeyVal_try_to_vec(Unwrap(PrefixIterators_next(e.iterators, iter_id).item).key,
                                      Unwrap(PrefixIterators_next(e.iterators, iter_id).item).val)))
         ELSE Return(e, ReadMissing(varlen))

vp_storage_iter_pre_next(e, iter_id, result_ptr) ==
    vp_iter_pre_next(Enter(e), iter_id, result_ptr, FALSE)

vp_storage_iter_pre_next_varlen(e, iter_id, result_ptr) ==
    vp_iter_pre_next(Enter(e), iter_id, result_ptr, TRUE)

RECURSIVE vp_iter_post_next(_, _, _, _)

\* The match of the loop body of the post advance, as in the transaction's.
vp_iter_post_match(e, mod, item, iter_id, result_ptr, varlen) ==
    IF ~Running(e) THEN e
    ELSE IF IsSome(mod)
         THEN CASE Unwrap(mod).tag = "Write" ->
                     vp_write_result(e, result_ptr,
                                     KeyVal_try_to_vec(item.key, Unwrap(mod).value),
                                     ReadFound(varlen, KeyVal_try_to_vec(item.key, Unwrap(mod).value)))
                [] Unwrap(mod).tag = "Delete" ->
                     vp_iter_post_next(e, iter_id, result_ptr, varlen)
                [] Unwrap(mod).tag = "InitAccount" ->
                     vp_iter_post_next(e, iter_id, result_ptr, varlen)
         ELSE vp_write_result(e, result_ptr, KeyVal_try_to_vec(item.key, item.val),
                              ReadFound(varlen, KeyVal_try_to_vec(item.key, item.val)))

vp_iter_post_item(e, item, iter_id, result_ptr, varlen) ==
    IF ~IsSome(Key_parse(item.key)) THEN Fault(e, "parse")
    ELSE vp_iter_post_match(
            vp_add_gas(e, item.gas + WriteLog_read(e.write_log, Unwrap(Key_parse(item.key))).gas),
            WriteLog_read(e.write_log, Unwrap(Key_parse(item.key))).mod,
            item, iter_id, result_ptr, varlen)

vp_iter_post_next(e, iter_id, result_ptr, varlen) ==
    IF ~Running(e) THEN e
    ELSE IF IsSome(PrefixIterators_next(e.iterators, iter_id).item)
         THEN vp_iter_post_item(
                [e EXCEPT !.iterators = PrefixIterators_next(e.iterators, iter_id).iterators],
                Unwrap(PrefixIterators_next(e.iterators, iter_id).item),
                iter_id, result_ptr, varlen)
         ELSE Return(e, ReadMissing(varlen))

vp_storage_iter_post_next(e, iter_id, result_ptr) ==
    vp_iter_post_next(Enter(e), iter_id, result_ptr, FALSE)

vp_storage_iter_post_next_varlen(e, iter_id, result_ptr) ==
    vp_iter_post_next(Enter(e), iter_id, result_ptr, TRUE)

(***************************************************************************)
(* Host calls as data: the import's name (prepare_tx_imports,              *)
(* prepare_vp_imports) and its arguments.                                  *)
(***************************************************************************)
HostCall(op, key, value, ptr) == [op |-> op, key |-> key, value |-> value, ptr |-> ptr]

\* The integer argument (a gas amount, an iterator id) of a call: it is
\* carried in value.
ArgInt(c) == Unwrap(c.value)[1]

\* The function each import of the transaction environment is bound to.
prepare_tx_imports(e, c) ==
    CASE c.op = "_read" -> tx_storage_read(e, c.key, c.ptr)
      [] c.op = "_read_varlen" -> tx_storage_read_varlen(e, c.key, c.ptr)
      [] c.op = "_has_key" -> tx_storage_has_key(e, c.key)
      [] c.op = "_write" -> tx_storage_write(e, c.key, c.value)
      [] c.op = "_delete" -> tx_storage_delete(e, c.key)
      [] c.op = "_insert_verifier" -> tx_insert_verifier(e, c.key)
      [] c.op = "_update_validity_predicate" ->
             tx_update_validity_predicate(e, c.key, c.value)
      [] c.op = "_init_account" -> tx_init_account(e, c.key, c.value)
      [] c.op = "gas" -> tx_charge_gas(e, ArgInt(c))
      [] c.op = "_iter_prefix" -> tx_storage_iter_prefix(e, c.key)
      [] c.op = "_iter_next" -> tx_storage_iter_next(e, ArgInt(c), c.ptr)
      [] c.op = "_iter_next_varlen" -> tx_storage_iter_next_varlen(e, ArgInt(c), c.ptr)

\* The function each import of the predicate environment is bound to.
prepare_vp_imports(e, c) ==
    CASE c.op = "_read_pre" -> vp_storage_read_pre(e, c.key, c.ptr)
      [] c.op = "_read_post" -> vp_storage_read_post(e, c.key, c.ptr)
      [] c.op = "_read_pre_varlen" -> vp_storage_read_pre_varlen(e, c.key, c.ptr)
      [] c.op = "_read_post_varlen" -> vp_storage_read_post_varlen(e, c.key, c.ptr)
      [] c.op = "_has_key_pre" -> vp_storage_has_key_pre(e, c.key)
      [] c.op = "_has_key_post" -> vp_storage_has_key_post(e, c.key)
      [] c.op = "gas" -> vp_charge_gas(e, ArgInt(c))
      [] c.op = "_iter_prefix" -> vp_storage_iter_prefix(e, c.key)
      [] c.op = "_iter_pre_next" -> vp_storage_iter_pre_next(e, ArgInt(c), c.ptr)
      [] c.op = "_iter_post_next" -> vp_storage_iter_post_next(e, ArgInt(c), c.ptr)
      [] c.op = "_iter_pre_next_varlen" ->
             vp_storage_iter_pre_next_varlen(e, ArgInt(c), c.ptr)
      [] c.op = "_iter_post_next_varlen" ->
             vp_storage_iter_post_next_varlen(e, ArgInt(c), c.ptr)

\* The state at height 0: a value under k and the predicates of A and B.
Genesis(kv) ==
    [key \in Keys |->
        CASE key = <<"k">> -> kv
          [] key = VpKey("A") -> Some(VpAcceptAll)
          [] key = VpKey("B") -> Some(VpKeepK)
          [] OTHER -> None]

HostStorages == {Genesis(kv) : kv \in {None} \cup {Some(v) : v \in Values}}

(***************************************************************************)
(* Transactions.  A raw transaction carries its guest code, here the host  *)
(* calls it makes; a wrapper carries the commitment (id) to an encrypted   *)
(* inner transaction; a decrypted transaction is the inner transaction of  *)
(* the wrapper with the same id.                                           *)
(***************************************************************************)
WrapperIds == {1, 2}

\* The host calls of the transactions of Spec.
Op(name) ==
    CASE name = "write" -> HostCall("_write", Some("k"), Some(VpKeepK), GoodPtr)
      [] name = "delete" -> HostCall("_delete", Some("k"), None, GoodPtr)
      [] name = "read" -> HostCall("_read", Some("k"), None, GoodPtr)
      [] name = "verifier a" -> HostCall("_insert_verifier", Some("a"), None, GoodPtr)
      [] name = "verifier b" -> HostCall("_insert_verifier", Some("b"), None, GoodPtr)
      [] name = "update c" ->
            HostCall("_update_validity_predicate", Some("C"), Some(VpAcceptAll), GoodPtr)
      [] name = "verifier c" -> HostCall("_insert_verifier", Some("c"), None, GoodPtr)
      [] name = "init b.e" ->
            HostCall("_init_account", Some("b.e"), Some(VpAcceptAll), GoodPtr)
      [] name = "init c.d" ->
            HostCall("_init_account", Some("c.d"), Some(VpAcceptAll), GoodPtr)

\* The code of the raw transactions: a write under the predicate of B, a
\* read and a delete under the predicate of A, the creation of an account
\* under B with a delete, the creation of an account whose parent does not
\* exist, two writes no predicate looks at, and a write under the predicate
\* of B and of C, an address without a predicate.
Programs ==
    {<<Op("write"), Op("verifier b")>>,
     <<Op("read"), Op("delete"), Op("verifier a")>>,
     <<Op("init b.e"), Op("delete")>>,
     <<Op("init c.d")>>,
     <<Op("update c"), Op("write")>>,
     <<Op("write"), Op("verifier b"), Op("verifier c")>>}

\* The inner transaction each wrapper commits to.
InnerProgram(id) ==
    IF id = 1 THEN <<Op("write"), Op("verifier a")>>
    ELSE <<Op("delete"), Op("verifier b")>>

Tx(kind, id, ops) == [kind |-> kind, id |-> id, ops |-> ops]
Malformed == Tx("Malformed", 0, <<>>)
Txs ==
    {Tx("Raw", 0, ops) : ops \in Programs}
    \cup {Tx("Wrapper", id, <<>>) : id \in WrapperIds}
    \cup {Tx("Decrypted", id, InnerProgram(id)) : id \in WrapperIds}
    \cup {Malformed}

(***************************************************************************)
(* Running guest code.                                                     *)
(***************************************************************************)
\* The transaction's code runs its host calls against e until it returns or
\* the host stops it.
RECURSIVE RunTx(_, _)
RunTx(ops, e) ==
    IF ops = <<>> \/ ~Running(e) THEN e
    ELSE RunTx(Tail(ops), prepare_tx_imports(e, Head(ops)))

\* The predicate of addr, running code over the pre view (storage) and the
\* post view (storage under write_log): its verdict and the gas it used.
VpKeepK_verdict(pre, post) ==
    [accept |-> Running(post) /\ pre.ret = post.ret /\ pre.result_buf = post.result_buf,
     gas |-> post.gas_meter]

VpKeepK_run(pre) == VpKeepK_verdict(pre, vp_storage_read_post(pre, Some("k"), GoodPtr))

RunVp(code, addr, storage, write_log) ==
    CASE code = VpAcceptAll -> [accept |-> TRUE, gas |-> 0]
      [] code = VpKeepK ->
            VpKeepK_run(vp_storage_read_pre(VpEnv(addr, storage, write_log),
                                            Some("k"), GoodPtr))
      [] OTHER -> [accept |-> FALSE, gas |-> 0]

(***************************************************************************)
(* The Shell (specification 4.5).                                          *)
(*   state      "Uninitialized" or "Operating"                             *)
(*   storage    the committed key-value state the host environment reads   *)
(*   committed  the state at each committed height (height h at h + 1)     *)
(*   tx_queue   the ids of the wrappers waiting for their decrypted        *)
(*              transaction, next_wrapper of them matched in this block    *)
(*   executed   the runs of the transactions processed in this block       *)
(***************************************************************************)
GenesisStorage == Genesis(Some(VpAcceptAll))

\* The root hash: a digest of the present keys and their values.
MerkleRoot(storage) == {<<key, storage[key]>> : key \in {x \in Keys : IsSome(storage[x])}}

Shell_new ==
    [state |-> "Uninitialized", storage |-> [key \in Keys |-> None],
     committed |-> <<>>, tx_queue |-> <<>>, next_wrapper |-> 0, executed |-> <<>>]

\* Result codes of a processed transaction.
CodeOk == 0
CodeInvalidTx == 1
CodeRuntimeError == 2
CodeInvalidOrder == 4
CodeExtraTxs == 5

\* A variant of Merge that applies one of the modifications of the write log.
Merge_one(storage, write_log) ==
    [key \in Keys |->
        IF key \in DOMAIN write_log
           /\ key = (CHOOSE x \in DOMAIN write_log : \A y \in DOMAIN write_log : Len(x) <= Len(y))
        THEN IF write_log[key].tag = "Delete" THEN None
             ELSE Some(write_log[key].value)
        ELSE storage[key]]

\* The write log is applied to the storage: a written value and the predicate
\* of a new account are stored, a deleted key is removed.
Merge(storage, write_log) ==
    [key \in Keys |->
        IF key \in DOMAIN write_log
        THEN IF write_log[key].tag = "Delete" THEN None
             ELSE Some(write_log[key].value)
        ELSE storage[key]]

\* A buffered run: the write log, the verifiers and the gas of a transaction
\* that ran; ran is FALSE when the transaction's code was not run.
Run(e) ==
    [ran |-> TRUE, write_log |-> e.write_log, verifiers |-> e.verifiers,
     gas |-> e.gas_meter, fault |-> e.aborted]
NoRun ==
    [ran |-> FALSE, write_log |-> EmptyWriteLog, verifiers |-> {}, gas |-> 0, fault |-> ""]

Shell_init_chain(sh) ==
    [sh EXCEPT !.state = "Operating", !.storage = GenesisStorage,
               !.committed = <<GenesisStorage>>]

\* The run (or NoRun) of a processed transaction is buffered and its result
\* returned.
Processed(sh, run, code, gas) ==
    [sh |-> [sh EXCEPT !.executed = Append(@, run)],
     out |-> [code |-> code, gas |-> gas]]

\* The environment of the run holds the storage of the shell by reference:
\* the storage after the run is the storage the environment ends with.
ProcessedRun(sh, e) ==
    Processed([sh EXCEPT !.storage = e.storage], Run(e),
              IF Running(e) THEN CodeOk ELSE CodeRuntimeError, e.gas_meter)

\* A decrypted transaction is matched with the next wrapper of the queue.
Matched(sh, tx) ==
    IF tx.kind = "Decrypted" THEN [sh EXCEPT !.next_wrapper = @ + 1] ELSE sh

\* process_proposal: the transaction is decoded, checked against the order
\* of the queue when it is a decrypted one, and run against a fresh write
\* log; the run is buffered and the storage is not touched.
Shell_process_proposal(sh, tx) ==
    IF tx.kind = "Malformed" THEN Processed(sh, NoRun, CodeInvalidTx, 0)
    ELSE IF tx.kind = "Wrapper" THEN Processed(sh, NoRun, CodeOk, 0)
    ELSE IF tx.kind = "Decrypted" /\ sh.next_wrapper >= Len(sh.tx_queue)
         THEN Processed(sh, NoRun, CodeExtraTxs, 0)
    ELSE IF tx.kind = "Decrypted" /\ sh.tx_queue[sh.next_wrapper + 1] # tx.id
         THEN Processed(Matched(sh, tx), NoRun, CodeInvalidOrder, 0)
    ELSE ProcessedRun(Matched(sh, tx), RunTx(tx.ops, TxEnv(sh.storage)))

\* reset_queue: the wrappers of the queue are all to be matched again.
Shell_reset_queue(sh) == [sh EXCEPT !.next_wrapper = 0]

\* The verdicts of the predicates of the verifiers of a run over storage.
Verdicts(storage, run) ==
    [addr \in run.verifiers |->
        IF IsSome(storage[VpKey(addr)])
        THEN RunVp(Unwrap(storage[VpKey(addr)]), addr, storage, run.write_log)
        ELSE [accept |-> FALSE, gas |-> 0]]

NoVerdicts == [addr \in {} |-> [accept |-> FALSE, gas |-> 0]]

\* The predicates of a transaction run independently and their verdicts are
\* gathered: the transaction is accepted when every predicate accepts and
\* the gas of the predicate phase is the maximum of the runs.
\* A variant of Gather that stops at the first rejection.
Gather_until_rejected(acc, verdict) ==
    IF acc.accept
    THEN [accept |-> verdict.accept,
          gas |-> IF verdict.gas > acc.gas THEN verdict.gas ELSE acc.gas]
    ELSE acc

Gather(acc, verdict) ==
    [accept |-> acc.accept /\ verdict.accept,
     gas |-> IF verdict.gas > acc.gas THEN verdict.gas ELSE acc.gas]

\* The verdicts gathered in the order in which the runs are joined.
RECURSIVE Gathered(_, _)
Gathered(verdicts, order) ==
    IF order = <<>> THEN [accept |-> TRUE, gas |-> 0]
    ELSE Gather(Gathered(verdicts, SubSeq(order, 1, Len(order) - 1)),
                verdicts[order[Len(order)]])

\* The orders in which a set of verifiers can be traversed.
Orders(verifiers) ==
    {order \in [1 .. Cardinality(verifiers) -> verifiers] :
        \A addr \in verifiers : \E i \in DOMAIN order : order[i] = addr}

\* The verdict on a transaction: its predicates are traversed in one of the
\* orders and their verdicts gathered.
AllAccept(verdicts) ==
    Gathered(verdicts, CHOOSE order \in Orders(DOMAIN verdicts) : TRUE).accept

\* The result of one transaction of a finalized block; judged says that its
\* predicates were run, merged that its write log was merged.
TxResult(ptx, run, code, judged, verdicts) ==
    [tx |-> ptx.tx, code |-> code, judged |-> judged,
     merged |-> judged /\ code = CodeOk,
     write_log |-> run.write_log,
     verdicts |-> [a \in DOMAIN verdicts |-> verdicts[a].accept],
     gas |-> run.gas]

Finalized(acc, sh, result) == [sh |-> sh, results |-> Append(acc.results, result)]

\* A decrypted transaction that is finalized leaves the queue.
Popped(sh, tx) ==
    IF tx.kind = "Decrypted"
    THEN [sh EXCEPT !.tx_queue = Tail(@),
                    !.next_wrapper = IF @ > 0 THEN @ - 1 ELSE 0]
    ELSE sh

\* A variant of Judged that merges the write log whatever the verdicts are.
Judged_merged(acc, sh, ptx, run, verdicts) ==
    Finalized(acc, [sh EXCEPT !.storage = Merge(@, run.write_log)],
              TxResult(ptx, run, IF AllAccept(verdicts) THEN CodeOk ELSE CodeInvalidTx,
                       TRUE, verdicts))

\* A variant of Judged that discards every write log of the block that comes
\* after a rejected one.
Judged_until_rejected(acc, sh, ptx, run, verdicts) ==
    IF AllAccept(verdicts)
       /\ \A i \in DOMAIN acc.results :
             acc.results[i].judged => acc.results[i].code = CodeOk
    THEN Finalized(acc, [sh EXCEPT !.storage = Merge(@, run.write_log)],
                   TxResult(ptx, run, CodeOk, TRUE, verdicts))
    ELSE Finalized(acc, sh, TxResult(ptx, run, CodeInvalidTx, TRUE, verdicts))

\* The write log is merged iff every predicate accepts.
Judged(acc, sh, ptx, run, verdicts) ==
    IF AllAccept(verdicts)
    THEN Finalized(acc, [sh EXCEPT !.storage = Merge(@, run.write_log)],
                   TxResult(ptx, run, CodeOk, TRUE, verdicts))
    ELSE Finalized(acc, sh, TxResult(ptx, run, CodeInvalidTx, TRUE, verdicts))

\* finalize_block, one buffered transaction: acc is the shell so far and the
\* results so far. A transaction that process_proposal refused is skipped;
\* a wrapper is queued; a decrypted transaction is skipped when all of them
\* are rejected and otherwise leaves the queue; the predicates of the
\* verifiers run over the storage so far and the write log of the run.
FinalizeTx(acc, ptx, run, reject_all_decrypted) ==
    IF ptx.result.code # CodeOk
    THEN Finalized(acc, acc.sh, TxResult(ptx, run, ptx.result.code, FALSE, NoVerdicts))
    ELSE IF ptx.tx.kind = "Wrapper"
    THEN Finalized(acc, [acc.sh EXCEPT !.tx_queue = Append(@, ptx.tx.id)],
                   TxResult(ptx, run, CodeOk, FALSE, NoVerdicts))
    ELSE IF ptx.tx.kind = "Decrypted" /\ reject_all_decrypted
    THEN Finalized(acc, acc.sh, TxResult(ptx, run, CodeInvalidTx, FALSE, NoVerdicts))
    ELSE IF ~run.ran
    THEN Finalized(acc, Popped(acc.sh, ptx.tx),
                   TxResult(ptx, run, CodeInvalidTx, FALSE, NoVerdicts))
    ELSE Judged(acc, Popped(acc.sh, ptx.tx), ptx, run, Verdicts(acc.sh.storage, run))

RECURSIVE FinalizeFrom(_, _, _)
FinalizeFrom(acc, i, req) ==
    IF i > Len(req.txs) THEN acc
    ELSE FinalizeFrom(
            FinalizeTx(acc, req.txs[i],
                       IF i <= Len(acc.sh.executed) THEN acc.sh.executed[i] ELSE NoRun,
                       req.reject_all_decrypted),
            i + 1, req)

\* The buffered runs are dropped with the end of the block.
Closed(acc) == [sh |-> [acc.sh EXCEPT !.executed = <<>>], out |-> acc.results]

Shell_finalize_block(sh, req) ==
    Closed(FinalizeFrom([sh |-> sh, results |-> <<>>], 1, req))

\* A variant of commit whose root covers the height of the block as well.
Shell_commit_numbered(sh) ==
    [sh |-> [sh EXCEPT !.committed = Append(@, sh.storage)],
     out |-> MerkleRoot(sh.storage) \cup {<<<<"height">>, Some(<<Len(sh.committed)>>)>>}]

\* commit: the state becomes the state of the next height; its root is returned.
Shell_commit(sh) ==
    [sh |-> [sh EXCEPT !.committed = Append(@, sh.storage)],
     out |-> MerkleRoot(sh.storage)]

\* A variant of query that answers from the working state of the block.
Shell_query_working(sh, key, height) ==
    IF height + 1 \in DOMAIN sh.committed
    THEN [code |-> 0, value |-> sh.storage[key]]
    ELSE [code |-> 1, value |-> None]

\* query: the value of a key in the state committed at a height.
Shell_query(sh, key, height) ==
    IF height + 1 \in DOMAIN sh.committed
    THEN [code |-> 0, value |-> sh.committed[height + 1][key]]
    ELSE [code |-> 1, value |-> None]

\* mempool_validate: the transaction must decode; nothing is kept of the check.
Shell_mempool_validate(sh, tx, type) ==
    [sh |-> sh, out |-> IF tx.kind = "Malformed" THEN 1 ELSE 0]

(***************************************************************************)
(* Shell::call: the dispatch of a request to its handler.                  *)
(***************************************************************************)
Request(type, arg) == [type |-> type, arg |-> arg]
Response(type, body) == [type |-> type, body |-> body]
Panic == Response("Panic", None)

CheckTxType_from_i32(t) ==
    IF t = 0 THEN Some("NewTransaction")
    ELSE IF t = 1 THEN Some("RecheckTransaction") ELSE None

\* The handler's new shell and the response that wraps what it returned.
Handled(type, r) == [sh |-> r.sh, rsp |-> Response(type, r.out)]

\* A variant of the CheckTx arm that runs the transaction as a proposal is
\* run: under it a mempool check leaves a buffered run behind.
Shell_call_CheckTx_processed(sh, tx) ==
    Handled("CheckTx", Shell_process_proposal(sh, tx.tx))

\* Request::CheckTx: the type is decoded (.expect) and the transaction handed
\* to mempool_validate.
Shell_call_CheckTx(sh, tx) ==
    IF IsSome(CheckTxType_from_i32(tx.type))
    THEN Handled("CheckTx",
            Shell_mempool_validate(sh, tx.tx, Unwrap(CheckTxType_from_i32(tx.type))))
    ELSE [sh |-> sh, rsp |-> Panic]

Shell_call(sh, req) ==
    CASE req.type = "InitChain" ->
            [sh |-> Shell_init_chain(sh), rsp |-> Response("InitChain", None)]
      [] req.type = "Query" ->
            [sh |-> sh,
             rsp |-> Response("Query", Shell_query(sh, req.arg.key, req.arg.height))]
      [] req.type = "ProcessProposal" ->
            Handled("ProcessProposal", Shell_process_proposal(sh, req.arg))
      [] req.type = "FinalizeBlock" ->
            Handled("FinalizeBlock", Shell_finalize_block(sh, req.arg))
      [] req.type = "Commit" -> Handled("Commit", Shell_commit(sh))
      [] req.type = "CheckTx" -> Shell_call_CheckTx(sh, req.arg)
      [] OTHER -> [sh |-> sh, rsp |-> Response(req.type, None)]

(***************************************************************************)
(* AbcippShim: the adapter between the consensus engine's requests and the *)
(* Shell.                                                                  *)
(***************************************************************************)
BlockHashes == {"h1", "h2"}
ProcessedTx(tx, result) == [tx |-> tx, result |-> result]

\* The threads of the node and its ABCI server play no part in the life of
\* a block nor in a guest invocation.
Unstarted ==
    /\ threads = [state |-> "unstarted"]
    /\ server = [state |-> "unstarted"]

\* No transfer is before the token predicate.
NoTransfer == token = [state |-> "unstarted"]

\* No predicates run side by side, and no matchmaker runs.
NoSandbox == sandbox = [state |-> "unstarted"]
NoMatchmaker == matchmaker = [state |-> "unstarted"]

AbcippShim_new ==
    /\ node = "running"
    /\ begin_block_request = None
    /\ block_txs = <<>>
    /\ shell = Shell_new
    /\ forwarded = <<>>
    /\ last_req = Request("None", None)
    /\ rsp = Response("None", None)
    /\ delivered = 0

\* The shim stops with the node when a handler panics.
Panicked ==
    /\ node' = "panicked"
    /\ rsp' = Panic

\* Req::BeginBlock: the request is kept for the end of the block.
BeginBlock ==
    /\ node = "running" /\ shell.state = "Operating"
    /\ \E block \in [hash : BlockHashes, valid : BOOLEAN] :
        /\ last_req' = Request("BeginBlock", block)
        /\ IF block.valid
           THEN /\ begin_block_request' = Some([hash |-> block.hash])
                /\ rsp' = Response("BeginBlock", None)
                /\ node' = node
           ELSE /\ Panicked
                /\ UNCHANGED begin_block_request
    /\ forwarded' = <<>>
    /\ UNCHANGED <<block_txs, shell, delivered>>
    /\ UNCHANGED host_vars
    /\ UNCHANGED run_vars

\* A variant of Buffered that keeps the last processed transaction only.
Buffered_alone(tx, req, r) ==
    /\ shell' = r.sh
    /\ block_txs' = <<ProcessedTx(tx, r.rsp.body)>>
    /\ forwarded' = <<req>>

\* The transaction is pushed on block_txs with the result the shell gave.
Buffered(tx, req, r) ==
    /\ shell' = r.sh
    /\ block_txs' = Append(block_txs, ProcessedTx(tx, r.rsp.body))
    /\ forwarded' = <<req>>

\* Req::DeliverTx: the shell processes the transaction as a proposal and the
\* result is buffered with the transaction.
DeliverTx ==
    /\ node = "running" /\ shell.state = "Operating"
    /\ delivered < MaxDeliver
    /\ \E tx \in Txs :
        /\ last_req' = Request("DeliverTx", tx)
        /\ Buffered(tx, Request("ProcessProposal", tx),
                    Shell_call(shell, Request("ProcessProposal", tx)))
    /\ rsp' = Response("DeliverTx", [code |-> 0, gas_used |-> 0])
    /\ delivered' = delivered + 1
    /\ UNCHANGED <<node, begin_block_request>>
    /\ UNCHANGED host_vars
    /\ UNCHANGED run_vars

\* A variant of out_of_order that overlooks the result code 4.
out_of_order_above_4(txs) == \E i \in DOMAIN txs : txs[i].result.code > 4

out_of_order(txs) == \E i \in DOMAIN txs : txs[i].result.code > 3

\* The response of the shell to FinalizeBlock becomes the response to EndBlock.
Ended(calls, req, r) ==
    /\ shell' = r.sh
    /\ forwarded' = Append(calls, req)
    /\ rsp' = Response("EndBlock", r.rsp.body)
    /\ node' = node

\* A variant of Finalize that reads the saved BeginBlock request and leaves it
\* in its place.
Finalize_keeping(txs, sh, calls) ==
    /\ block_txs' = <<>>
    /\ begin_block_request' = begin_block_request
    /\ IF IsSome(begin_block_request)
       THEN Ended(calls,
                  Request("FinalizeBlock",
                          [hash |-> Unwrap(begin_block_request).hash, txs |-> txs,
                           reject_all_decrypted |-> out_of_order(txs)]),
                  Shell_call(sh, Request("FinalizeBlock",
                          [hash |-> Unwrap(begin_block_request).hash, txs |-> txs,
                           reject_all_decrypted |-> out_of_order(txs)])))
       ELSE /\ shell' = sh
            /\ forwarded' = calls
            /\ Panicked

\* The buffered transactions, the queue reset when they are out of order, and
\* the FinalizeBlock request made of them and of the BeginBlock request.
Finalize(txs, sh, calls) ==
    /\ block_txs' = <<>>
    /\ begin_block_request' = None
    /\ IF IsSome(begin_block_request)
       THEN Ended(calls,
                  Request("FinalizeBlock",
                          [hash |-> Unwrap(begin_block_request).hash, txs |-> txs,
                           reject_all_decrypted |-> out_of_order(txs)]),
                  Shell_call(sh, Request("FinalizeBlock",
                          [hash |-> Unwrap(begin_block_request).hash, txs |-> txs,
                           reject_all_decrypted |-> out_of_order(txs)])))
       ELSE /\ shell' = sh
            /\ forwarded' = calls
            /\ Panicked

\* Req::EndBlock: the buffered transactions are finalized in one request.
EndBlock ==
    /\ node = "running" /\ shell.state = "Operating"
    /\ \E height_ok \in BOOLEAN :
        /\ last_req' = Request("EndBlock", [valid |-> height_ok])
        /\ IF ~height_ok
           THEN /\ Panicked
                /\ forwarded' = <<>>
                /\ UNCHANGED <<begin_block_request, block_txs, shell>>
           ELSE IF out_of_order(block_txs)
                THEN Finalize(block_txs, Shell_reset_queue(shell),
                              <<Request("reset_queue", None)>>)
                ELSE Finalize(block_txs, shell, <<>>)
    /\ UNCHANGED delivered
    /\ UNCHANGED host_vars
    /\ UNCHANGED run_vars

Served(req, r) ==
    /\ shell' = r.sh
    /\ forwarded' = <<req>>
    /\ rsp' = r.rsp
    /\ node' = IF r.rsp = Panic THEN "panicked" ELSE node

\* Every other request is converted and handed to the shell as it is.
Forward(req) ==
    /\ node = "running"
    /\ last_req' = req
    /\ Served(req, Shell_call(shell, req))
    /\ UNCHANGED <<begin_block_request, block_txs, delivered>>
    /\ UNCHANGED host_vars
    /\ UNCHANGED run_vars

InitChain ==
    /\ shell.state = "Uninitialized"
    /\ Forward(Request("InitChain", None))

Commit ==
    /\ shell.state = "Operating"
    /\ Len(shell.committed) <= MaxHeight
    /\ Forward(Request("Commit", None))

QueryKeys == {<<"k">>}

Query ==
    /\ shell.state = "Operating"
    /\ \E key \in QueryKeys, height \in 0 .. MaxHeight + 1 :
        Forward(Request("Query", [key |-> key, height |-> height]))

CheckTxs == {Malformed, Tx("Raw", 0, <<Op("write"), Op("verifier b")>>)}

CheckTx ==
    /\ shell.state = "Operating"
    /\ \E tx \in CheckTxs, type \in 0 .. 2 :
        Forward(Request("CheckTx", [tx |-> tx, type |-> type]))

\* The host variables of HostSpec play no part in the life of a block.
Init ==
    /\ AbcippShim_new
    /\ Unstarted
    /\ NoTransfer
    /\ NoSandbox
    /\ NoMatchmaker
    /\ env = TxEnv(GenesisStorage)
    /\ vp_env = VpEnv("A", GenesisStorage, EmptyWriteLog)
    /\ phase = "idle"
    /\ hist = <<>>

Next ==
    \/ InitChain
    \/ BeginBlock
    \/ DeliverTx
    \/ EndBlock
    \/ Commit
    \/ Query
    \/ CheckTx

Spec == Init /\ [][Next]_vars

(***************************************************************************)
(* AbciSpec: the wrapper of the other protocol revision                    *)
(* (shell/tendermint/mod.rs).  AbciWrapper relays each request of the      *)
(* consensus engine to the shell as an AbciMsg over a channel and waits    *)
(* for the reply; forwarded holds the messages a request sent.             *)
(***************************************************************************)
AbciMsg(type, arg) == [type |-> type, arg |-> arg]

\* The shell's reply to ApplyTx: the gas and the result of the transaction,
\* which is run, judged by its predicates and merged when they accept.
ApplyReply(f) ==
    [sh |-> f.sh,
     out |-> [gas |-> f.out[1].gas,
              result |-> IF f.out[1].code = CodeOk THEN "Ok(accepted)"
                         ELSE IF f.out[1].judged THEN "Ok(rejected)" ELSE "Err"]]

ApplyProcessed(p, tx) ==
    ApplyReply(Shell_finalize_block(p.sh,
                [hash |-> "h1", txs |-> <<ProcessedTx(tx, p.out)>>,
                 reject_all_decrypted |-> FALSE]))

Shell_apply_tx(sh, tx) == ApplyProcessed(Shell_process_proposal(sh, tx), tx)

\* The transactions of the revision: raw ones and bytes that do not decode.
AbciTxs == {Tx("Raw", 0, ops) : ops \in Programs} \cup {Malformed}

\* What a request leaves of the shim's variables, which the wrapper has not.
Relayed(msgs) ==
    /\ forwarded' = msgs
    /\ UNCHANGED <<begin_block_request, block_txs>>
    /\ UNCHANGED host_vars
    /\ UNCHANGED run_vars

AbciWrapper_init_chain ==
    /\ node = "running" /\ shell.state = "Uninitialized"
    /\ last_req' = Request("InitChain", None)
    /\ shell' = Shell_init_chain(shell)
    /\ rsp' = Response("InitChain", None)
    /\ Relayed(<<AbciMsg("InitChain", None)>>)
    /\ UNCHANGED <<node, delivered>>

\* begin_block: a hash or a height that does not convert is logged and the
\* default response returned; a missing header stops the wrapper (.expect).
AbciWrapper_begin_block ==
    /\ node = "running" /\ shell.state = "Operating"
    /\ \E block \in [hash_ok : BOOLEAN, header : BOOLEAN, height_ok : BOOLEAN] :
        /\ last_req' = Request("BeginBlock",
                                [valid |-> block.hash_ok /\ block.header /\ block.height_ok])
        /\ IF block.hash_ok /\ ~block.header
           THEN /\ Panicked
                /\ Relayed(<<>>)
           ELSE /\ rsp' = Response("BeginBlock", None)
                /\ node' = node
                /\ Relayed(IF block.hash_ok /\ block.height_ok
                           THEN <<AbciMsg("BeginBlock", None)>> ELSE <<>>)
    /\ UNCHANGED <<shell, delivered>>

\* deliver_tx: resp.gas_used is the gas of the reply and resp.info its
\* result; resp.code is left at its default.
AbciWrapper_deliver_tx ==
    /\ node = "running" /\ shell.state = "Operating"
    /\ delivered < MaxDeliver
    /\ \E tx \in AbciTxs :
        /\ last_req' = Request("DeliverTx", tx)
        /\ shell' = Shell_apply_tx(shell, tx).sh
        /\ rsp' = Response("DeliverTx",
                           [code |-> 0, gas_used |-> Shell_apply_tx(shell, tx).out.gas,
                            info |-> Shell_apply_tx(shell, tx).out.result])
        /\ Relayed(<<AbciMsg("ApplyTx", tx)>>)
    /\ delivered' = delivered + 1
    /\ UNCHANGED node

\* end_block: a height that does not convert is logged and the default
\* response returned.
AbciWrapper_end_block ==
    /\ node = "running" /\ shell.state = "Operating"
    /\ \E height_ok \in BOOLEAN :
        /\ last_req' = Request("EndBlock", [valid |-> height_ok])
        /\ Relayed(IF height_ok THEN <<AbciMsg("EndBlock", None)>> ELSE <<>>)
    /\ rsp' = Response("EndBlock", None)
    /\ UNCHANGED <<node, shell, delivered>>

\* commit: resp.data is the root the shell replied with.
AbciWrapper_commit ==
    /\ node = "running" /\ shell.state = "Operating"
    /\ Len(shell.committed) <= MaxHeight
    /\ last_req' = Request("Commit", None)
    /\ shell' = Shell_commit(shell).sh
    /\ rsp' = Response("Commit", Shell_commit(shell).out)
    /\ Relayed(<<AbciMsg("CommitBlock", None)>>)
    /\ UNCHANGED <<node, delivered>>

\* check_tx: the type is decoded (.expect) and the reply to MempoolValidate
\* becomes the code of the response.
AbciWrapper_check_tx ==
    /\ node = "running" /\ shell.state = "Operating"
    /\ \E tx \in CheckTxs, type \in 0 .. 2 :
        /\ last_req' = Request("CheckTx", [tx |-> tx, type |-> type])
        /\ IF IsSome(CheckTxType_from_i32(type))
           THEN /\ rsp' = Response("CheckTx",
                          Shell_mempool_validate(shell, tx,
                                                 Unwrap(CheckTxType_from_i32(type))).out)
                /\ node' = node
                /\ Relayed(<<AbciMsg("MempoolValidate", [tx |-> tx, type |-> type])>>)
           ELSE /\ Panicked
                /\ Relayed(<<>>)
    /\ UNCHANGED <<shell, delivered>>

AbciNext ==
    \/ AbciWrapper_init_chain
    \/ AbciWrapper_begin_block
    \/ AbciWrapper_deliver_tx
    \/ AbciWrapper_end_block
    \/ AbciWrapper_commit
    \/ AbciWrapper_check_tx

AbciSpec == Init /\ [][AbciNext]_vars

\* ---------------------------------------------------------------------
\* The threads of run() and the ABCI server of run_shell.
\*
\* threads: the position of the Tendermint thread (tm), of the shell thread
\* (sh) and of run() itself (main), the abort handle of the shell's server
\* future (aborted), the failure channel (failure), the abort channel to
\* the Tendermint node (abort_chan) and whether process::exit was called.
\* server: the requests that arrived, the buffer in front of the shim, the
\* requests inside AbcippShim::call and the requests applied so far.
\* ---------------------------------------------------------------------
MaxRequests == 4
BufferBound == 5
Categories == {"consensus", "mempool", "info", "snapshot"}
TendermintModes == {"Validator", "Full"}

AbciRequest(category, n) == [category |-> category, n |-> n]

\* What would hold if the shim's call took a shared reference.
AbcippShim_call_shared(in_call) == TRUE

\* call takes &mut self and computes the response before it returns: the
\* worker of the buffer enters it only when no call is in progress.
AbcippShim_call_ready(in_call) == in_call = {}

\* split::service(service, 5): the four components feed one bounded queue.
Buffer_has_room(buffer) == Len(buffer) < BufferBound

\* load_shed(): a mempool or info request that finds no room is answered
\* with an error; a consensus or snapshot request waits.
LoadShed(category) == category \in {"mempool", "info"}

Serving == threads.sh = "serving" /\ ~threads.exited

run ==
    /\ \E mode \in TendermintModes :
          threads = [mode |-> mode, tm |-> "node", sh |-> "serving",
                     main |-> "join_shell", aborted |-> FALSE,
                     failure |-> FALSE, abort_chan |-> <<>>,
                     exited |-> FALSE]
    /\ server = [arrived |-> <<>>, buffer |-> <<>>, in_call |-> {},
                 applied |-> <<>>]

\* A request arrives on the connection of its category.
Server_request ==
    /\ Serving
    /\ Len(server.arrived) < MaxRequests
    /\ \E category \in Categories :
          LET req == AbciRequest(category, Len(server.arrived) + 1) IN
          /\ Buffer_has_room(server.buffer) \/ LoadShed(category)
          /\ server' = [server EXCEPT
                !.arrived = Append(@, req),
                !.buffer = IF Buffer_has_room(@) THEN Append(@, req) ELSE @]
    /\ UNCHANGED <<threads, token, sandbox, matchmaker>>
    /\ UNCHANGED node_vars
    /\ UNCHANGED host_vars

\* The worker of the buffer hands the oldest request to the shim.
AbcippShim_call ==
    /\ Serving
    /\ server.buffer # <<>>
    /\ AbcippShim_call_ready(server.in_call)
    /\ server' = [server EXCEPT
          !.buffer = Tail(@),
          !.in_call = @ \cup {Head(server.buffer)},
          !.applied = Append(@, Head(server.buffer))]
    /\ UNCHANGED <<threads, token, sandbox, matchmaker>>
    /\ UNCHANGED node_vars
    /\ UNCHANGED host_vars

\* The shim's call returns its response.
AbcippShim_call_returns ==
    /\ Serving
    /\ \E req \in server.in_call :
          server' = [server EXCEPT !.in_call = @ \ {req}]
    /\ UNCHANGED <<threads, token, sandbox, matchmaker>>
    /\ UNCHANGED node_vars
    /\ UNCHANGED host_vars

\* tendermint_node::run comes back: with Ok, with an error, or by a panic
\* that unwinds the thread's closure.
tendermint_node_run ==
    /\ ~threads.exited
    /\ threads.tm = "node"
    /\ \E result \in {"Ok", "Err", "panic"} :
          threads' = [threads EXCEPT !.tm =
              CASE result = "Ok" -> "stopping"
                [] result = "Err" -> "failed"
                [] OTHER -> "panicked"]
    /\ UNCHANGED <<server, token, sandbox, matchmaker>>
    /\ UNCHANGED node_vars
    /\ UNCHANGED host_vars

\* failure_sender.send(()).unwrap(): panics when the shell thread has
\* dropped the receiver.
failure_sender_send ==
    /\ ~threads.exited
    /\ threads.tm = "failed"
    /\ threads' = IF threads.sh \in {"done", "panicked"}
                  THEN [threads EXCEPT !.tm = "panicked"]
                  ELSE [threads EXCEPT !.tm = "stopping", !.failure = TRUE]
    /\ UNCHANGED <<server, token, sandbox, matchmaker>>
    /\ UNCHANGED node_vars
    /\ UNCHANGED host_vars

\* The Aborter is constructed and dropped at once: drop calls abort.
Aborter_drop ==
    /\ ~threads.exited
    /\ threads.tm = "stopping"
    /\ threads' = [threads EXCEPT !.tm = "done", !.aborted = TRUE]
    /\ UNCHANGED <<server, token, sandbox, matchmaker>>
    /\ UNCHANGED node_vars
    /\ UNCHANGED host_vars

\* The abortable server future ends: because it was aborted, or because
\* server.listen came back by itself.
abortable_shell ==
    /\ Serving
    /\ \E listen_returned \in BOOLEAN :
          /\ threads.aborted \/ listen_returned
          /\ threads' = [threads EXCEPT !.sh = "check"]
    /\ UNCHANGED <<server, token, sandbox, matchmaker>>
    /\ UNCHANGED node_vars
    /\ UNCHANGED host_vars

\* In validator mode the broadcaster wins the select: an error exits the
\* process, Ok drops the server future.
broadcaster_run ==
    /\ Serving
    /\ threads.mode = "Validator"
    /\ \E result \in {"Ok", "Err"} :
          threads' = IF result = "Err"
                     THEN [threads EXCEPT !.exited = TRUE]
                     ELSE [threads EXCEPT !.sh = "check"]
    /\ UNCHANGED <<server, token, sandbox, matchmaker>>
    /\ UNCHANGED node_vars
    /\ UNCHANGED host_vars

\* The shell thread panics.
run_shell_panics ==
    /\ Serving
    /\ threads' = [threads EXCEPT !.sh = "panicked"]
    /\ UNCHANGED <<server, token, sandbox, matchmaker>>
    /\ UNCHANGED node_vars
    /\ UNCHANGED host_vars

\* failure_receiver.try_recv(): a failure signal exits the process.
failure_receiver_try_recv ==
    /\ ~threads.exited
    /\ threads.sh = "check"
    /\ threads' = IF threads.failure
                  THEN [threads EXCEPT !.exited = TRUE]
                  ELSE [threads EXCEPT !.sh = "done"]
    /\ UNCHANGED <<server, token, sandbox, matchmaker>>
    /\ UNCHANGED node_vars
    /\ UNCHANGED host_vars

\* shell_handle.join(): only a panic of the shell sends on the abort
\* channel.
shell_handle_join ==
    /\ ~threads.exited
    /\ threads.main = "join_shell"
    /\ threads.sh \in {"done", "panicked"}
    /\ threads' = [threads EXCEPT
          !.main = "join_tm",
          !.abort_chan = IF threads.sh = "panicked" THEN Append(@, FALSE)
                         ELSE @]
    /\ UNCHANGED <<server, token, sandbox, matchmaker>>
    /\ UNCHANGED node_vars
    /\ UNCHANGED host_vars

\* tendermint_handle.join().expect(..).
tendermint_handle_join ==
    /\ ~threads.exited
    /\ threads.main = "join_tm"
    /\ threads.tm \in {"done", "panicked"}
    /\ threads' = [threads EXCEPT !.main =
          IF threads.tm = "done" THEN "returned" ELSE "panicked"]
    /\ UNCHANGED <<server, token, sandbox, matchmaker>>
    /\ UNCHANGED node_vars
    /\ UNCHANGED host_vars

RunInit ==
    /\ AbcippShim_new
    /\ NoTransfer
    /\ NoSandbox
    /\ NoMatchmaker
    /\ run
    /\ env = TxEnv(GenesisStorage)
    /\ vp_env = VpEnv("A", GenesisStorage, EmptyWriteLog)
    /\ phase = "idle"
    /\ hist = <<>>

RunNext ==
    \/ Server_request
    \/ AbcippShim_call
    \/ AbcippShim_call_returns
    \/ tendermint_node_run
    \/ failure_sender_send
    \/ Aborter_drop
    \/ abortable_shell
    \/ broadcaster_run
    \/ run_shell_panics
    \/ failure_receiver_try_recv
    \/ shell_handle_join
    \/ tendermint_handle_join

RunSpec == RunInit /\ [][RunNext]_vars

\* The steps the threads take by themselves happen once they can: the
\* sends, the drop of the Aborter, the end of an aborted server future, the
\* check of the failure channel and the two joins.  What the Tendermint
\* node, the listener, the broadcaster and the clients do is not forced.
RunFairSpec ==
    /\ RunSpec
    /\ WF_vars(failure_sender_send)
    /\ WF_vars(Aborter_drop)
    /\ WF_vars(abortable_shell /\ threads.aborted)
    /\ WF_vars(failure_receiver_try_recv)
    /\ WF_vars(shell_handle_join)
    /\ WF_vars(tendermint_handle_join)

\* ---------------------------------------------------------------------
\* The native validity predicate of the token (shared/src/ledger/token.rs).
\*
\* token: the message of the transaction, the balances before (pre) and
\* after (post) the transaction, and the verdict once validate_tx ran.
\* A denomination is the sequence of its segments between '/'.
\* ---------------------------------------------------------------------
MaxAmount == 2

TokenOk(value) == [ok |-> TRUE, value |-> value]
TokenErr(error) == [ok |-> FALSE, error |-> error]

Burn == <<"Burn">>
Mint == <<"Mint">>
ibc_escrow_address(port, channel) == <<"IbcEscrow", port, channel>>
balance_key(tok, owner) == <<"balance", tok, owner>>

\* Address::decode of the last segment of the denomination.
Address_decode(token_str) ==
    IF token_str \in Addresses THEN TokenOk(token_str)
    ELSE TokenErr("Address")

\* Amount::from_str: a numeral gives its amount, anything else an error.
AmountStrings == {"0", "1", "2", "x"}
Amount_from_str(str) ==
    CASE str = "0" -> TokenOk(0)
      [] str = "1" -> TokenOk(1)
      [] str = "2" -> TokenOk(2)
      [] OTHER -> TokenErr("Amount")

\* The stored bytes of an amount, and Amount::try_from_slice of them.
Amount_bytes(amount) == <<amount>>
Amount_try_from_slice(v) ==
    IF Len(v) = 1 THEN TokenOk(v[1]) ELSE TokenErr("Decoding")

\* A stored balance, an absent one being Amount::default().
Token_read(view, key) ==
    IF key \in DOMAIN view /\ IsSome(view[key])
    THEN Amount_try_from_slice(Unwrap(view[key]))
    ELSE TokenOk(0)

\* denomination.starts_with("{port}/{channel}/").
Denomination_starts_with(denomination, port, channel) ==
    /\ Len(denomination) >= 3
    /\ denomination[1] = port
    /\ denomination[2] = channel

\* What would hold if the sending side always escrowed.
Sending_target_escrow(msg) ==
    ibc_escrow_address(msg.source_port, msg.source_channel)

\* The account a sent token goes to: burnt in the sink zone, escrowed in
\* the source zone.
Sending_target(msg) ==
    IF Denomination_starts_with(msg.denomination, msg.source_port,
                                msg.source_channel)
    THEN Burn
    ELSE ibc_escrow_address(msg.source_port, msg.source_channel)

\* The account a received token comes from.
Receiving_source(msg) ==
    IF Denomination_starts_with(msg.denomination, msg.source_port,
                                msg.source_channel)
    THEN ibc_escrow_address(msg.destination_port, msg.destination_channel)
    ELSE Mint

\* The account a refunded token comes from.
Refunding_source(msg) ==
    IF Denomination_starts_with(msg.denomination, msg.source_port,
                                msg.source_channel)
    THEN Mint
    ELSE ibc_escrow_address(msg.source_port, msg.source_channel)

\* The shared tail of the three checks: the balance of one account moved
\* by exactly the amount of the message.
Token_check(msg, owner, pre_view, post_view) ==
    LET tok == Address_decode(msg.denomination[Len(msg.denomination)])
        amount == Amount_from_str(msg.amount)
    IN  IF ~tok.ok THEN tok
        ELSE IF ~amount.ok THEN amount
        ELSE LET key == balance_key(tok.value, owner)
                 pre == Token_read(pre_view, key)
                 post == Token_read(post_view, key)
             IN  IF ~pre.ok THEN pre
                 ELSE IF ~post.ok THEN post
                 ELSE IF post.value - pre.value = amount.value
                      THEN TokenOk(TRUE)
                      ELSE TokenErr("TokenTransfer")

validate_sending_token(msg, pre_view, post_view) ==
    Token_check(msg, Sending_target(msg), pre_view, post_view)

validate_receiving_token(msg, pre_view, post_view) ==
    Token_check(msg, Receiving_source(msg), pre_view, post_view)

validate_refunding_token(msg, pre_view, post_view) ==
    Token_check(msg, Refunding_source(msg), pre_view, post_view)

validate_tx(msg, pre_view, post_view) ==
    CASE msg.kind = "undecodable" -> TokenErr("IbcMessage")
      [] msg.kind = "Ics20Msg" ->
            validate_sending_token(msg, pre_view, post_view)
      [] msg.kind = "RecvPacket" ->
            validate_receiving_token(msg, pre_view, post_view)
      [] msg.kind \in {"ToPacket", "ToClosePacket"} ->
            validate_refunding_token(msg, pre_view, post_view)
      [] OTHER -> TokenErr("InvalidMessage")

MsgKinds ==
    {"undecodable", "Ics20Msg", "RecvPacket", "ToPacket", "ToClosePacket",
     "Ics4ChannelMsg"}
Denominations == {<<"A">>, <<"p", "c", "A">>, <<"q", "d", "A">>, <<"p", "c", "">>}
TokenOwners ==
    {Burn, Mint, ibc_escrow_address("p", "c"), ibc_escrow_address("q", "d")}
TokenKeys == {balance_key("A", owner) : owner \in TokenOwners}
TokenValues ==
    {None, Some(<<>>)} \cup {Some(Amount_bytes(n)) : n \in 0..MaxAmount}

\* The balances before the transaction: none, or every account at 1.
TokenStorages ==
    {[key \in TokenKeys |-> None],
     [key \in TokenKeys |-> Some(Amount_bytes(1))]}

\* A transaction staged at most one write of a balance, and its message is
\* before the predicate.
TokenInit ==
    /\ AbcippShim_new
    /\ Unstarted
    /\ NoSandbox
    /\ NoMatchmaker
    /\ env = TxEnv(GenesisStorage)
    /\ vp_env = VpEnv("A", GenesisStorage, EmptyWriteLog)
    /\ phase = "idle"
    /\ hist = <<>>
    /\ \E kind \in MsgKinds, denomination \in Denominations,
          amount \in AmountStrings, pre_view \in TokenStorages,
          key \in TokenKeys, value \in TokenValues :
          token = [state |-> "staged",
                   msg |-> [kind |-> kind, denomination |-> denomination,
                            amount |-> amount,
                            source_port |-> "p", source_channel |-> "c",
                            destination_port |-> "q",
                            destination_channel |-> "d"],
                   pre |-> pre_view,
                   post |-> [pre_view EXCEPT ![key] = value]]

\* The predicate runs on the transaction.
Token_validate_tx ==
    /\ token.state = "staged"
    /\ token' = [state |-> "validated", msg |-> token.msg,
                 pre |-> token.pre, post |-> token.post,
                 result |-> validate_tx(token.msg, token.pre, token.post)]
    /\ UNCHANGED <<threads, server, sandbox, matchmaker>>
    /\ UNCHANGED node_vars
    /\ UNCHANGED host_vars

TokenNext == Token_validate_tx

TokenSpec == TokenInit /\ [][TokenNext]_vars

(***************************************************************************)
(* HostSpec: one transaction run making host calls, then one validity      *)
(* predicate run making host calls over the transaction's write log.       *)
(***************************************************************************)
TxCalls ==
    {HostCall(op, Some("k"), None, GoodPtr) : op \in {"_read", "_read_varlen", "_has_key"}}
    \cup {HostCall(op, Some("BE/?"), None, GoodPtr) : op \in {"_read", "_has_key"}}
    \cup {HostCall("_read", Some("k"), None, BadPtr),
          HostCall("_read", Some(""), None, GoodPtr),
          HostCall("_read", None, None, GoodPtr)}
    \cup {HostCall("_write", Some("k"), v, GoodPtr) :
            v \in {Some(<<>>), Some(VpAcceptAll), Some(VpKeepK), None}}
    \cup {HostCall("_delete", Some("k"), None, GoodPtr),
          HostCall("_insert_verifier", Some("a"), None, GoodPtr),
          HostCall("_insert_verifier", Some(""), None, GoodPtr),
          HostCall("_update_validity_predicate", Some("B"), Some(VpAcceptAll), GoodPtr),
          HostCall("_init_account", Some("b.e"), Some(VpAcceptAll), GoodPtr),
          HostCall("_init_account", Some("c.d"), Some(VpAcceptAll), GoodPtr)}
    \cup {HostCall("_update_validity_predicate", Some("C"), Some(VpAcceptAll), GoodPtr),
          HostCall("_init_account", Some("b.e"), None, GoodPtr)}
    \cup {HostCall("gas", None, Some(<<used_gas>>), GoodPtr) : used_gas \in {97, 99, -1}}

VpCalls ==
    {HostCall(op, Some("k"), None, GoodPtr) :
        op \in {"_read_pre", "_read_post", "_read_pre_varlen", "_read_post_varlen",
                "_has_key_pre", "_has_key_post"}}
    \cup {HostCall(op, Some("BE/?"), None, GoodPtr) :
        op \in {"_read_pre", "_read_post", "_has_key_post"}}
    \cup {HostCall(op, Some("k"), None, BadPtr) : op \in {"_read_pre", "_read_post"}}
    \cup {HostCall("_read_pre", Some(""), None, GoodPtr)}
    \cup {HostCall("gas", None, Some(<<used_gas>>), GoodPtr) : used_gas \in {99, -1}}

\* What the history keeps of a host call: the context, the call, and what the
\* guest got back (no return value when the invocation was aborted).
Entry(ctx, c, e) ==
    [ctx |-> ctx, c |-> c, ret |-> e.ret, buf |-> e.result_buf, fault |-> e.aborted]

HostInit ==
    /\ env \in {TxEnv(s) : s \in HostStorages}
    /\ vp_env = VpEnv("B", env.storage, EmptyWriteLog)
    /\ phase = "tx"
    /\ hist = <<>>
    /\ AbcippShim_new
    /\ Unstarted
    /\ NoTransfer
    /\ NoSandbox
    /\ NoMatchmaker

\* The transaction's guest code makes a host call.
TxHostCall ==
    /\ phase = "tx"
    /\ Running(env)
    /\ Len(hist) < MaxCalls
    /\ \E c \in TxCalls :
          /\ env' = prepare_tx_imports(env, c)
          /\ hist' = Append(hist, Entry("tx", c, env'))
    /\ UNCHANGED <<vp_env, phase>>
    /\ UNCHANGED node_vars
    /\ UNCHANGED run_vars

\* The transaction's guest code returns; a validity predicate is started
\* over the storage and the write log of the transaction.
TxReturn ==
    /\ phase = "tx"
    /\ Running(env)
    /\ phase' = "vp"
    /\ vp_env' = VpEnv("B", env.storage, env.write_log)
    /\ UNCHANGED <<env, hist>>
    /\ UNCHANGED node_vars
    /\ UNCHANGED run_vars

\* The predicate's guest code makes a host call.
VpHostCall ==
    /\ phase = "vp"
    /\ Running(vp_env)
    /\ Len(hist) < MaxCalls
    /\ \E c \in VpCalls :
          /\ vp_env' = prepare_vp_imports(vp_env, c)
          /\ hist' = Append(hist, Entry("vp", c, vp_env'))
    /\ UNCHANGED <<env, phase>>
    /\ UNCHANGED node_vars
    /\ UNCHANGED run_vars

HostNext == TxHostCall \/ TxReturn \/ VpHostCall

HostSpec == HostInit /\ [][HostNext]_vars

(***************************************************************************)
(* IterSpec: a transaction that has staged its modifications iterates over *)
(* a prefix, then a validity predicate iterates over the same storage and  *)
(* write log.                                                              *)
(***************************************************************************)
\* The storages: the accounts of the genesis and of BE, with or without a
\* value under BE/x and under BE/y.
IterStorages ==
    {[Genesis(Some(VpKeepK)) EXCEPT ![VpKey("BE")] = Some(VpAcceptAll),
                                    ![<<"BE", "x">>] = x, ![<<"BE", "y">>] = y] :
        x \in {None, Some(<<>>)}, y \in {None, Some(VpAcceptAll)}}

\* What the transaction stages before it iterates.
IterPrograms ==
    {<<>>,
     <<HostCall("_delete", Some("BE/x"), None, GoodPtr)>>,
     <<HostCall("_init_account", Some("b.e"), Some(VpKeepK), GoodPtr),
       HostCall("_delete", Some("BE/x"), None, GoodPtr)>>,
     <<HostCall("_write", Some("BE/x"), Some(VpKeepK), GoodPtr)>>,
     <<HostCall("_write", Some("BE/y"), Some(VpKeepK), GoodPtr)>>,
     <<HostCall("_write", Some("BE/x"), Some(<<>>), GoodPtr),
       HostCall("_delete", Some("BE/y"), None, GoodPtr)>>}

TxIterCalls ==
    {HostCall("_iter_prefix", Some("BE"), None, GoodPtr),
     HostCall("_iter_prefix", Some("k"), None, GoodPtr),
     HostCall("_iter_next", None, Some(<<0>>), GoodPtr),
     HostCall("_iter_next_varlen", None, Some(<<0>>), GoodPtr),
     HostCall("_iter_next", None, Some(<<1>>), GoodPtr)}

VpIterCalls ==
    {HostCall("_iter_prefix", Some("BE"), None, GoodPtr)}
    \cup {HostCall(op, None, Some(<<0>>), GoodPtr) :
            op \in {"_iter_pre_next", "_iter_post_next",
                    "_iter_pre_next_varlen", "_iter_post_next_varlen"}}

IterInit ==
    /\ env \in {RunTx(ops, TxEnv(s)) : ops \in IterPrograms, s \in IterStorages}
    /\ vp_env = VpEnv("B", env.storage, EmptyWriteLog)
    /\ phase = "tx"
    /\ hist = <<>>
    /\ AbcippShim_new
    /\ Unstarted
    /\ NoTransfer
    /\ NoSandbox
    /\ NoMatchmaker

\* The transaction's guest code opens or advances an iterator.
TxIterCall ==
    /\ phase = "tx"
    /\ Running(env)
    /\ Len(hist) < MaxIterCalls
    /\ \E c \in TxIterCalls :
          /\ env' = prepare_tx_imports(env, c)
          /\ hist' = Append(hist, Entry("tx", c, env'))
    /\ UNCHANGED <<vp_env, phase>>
    /\ UNCHANGED node_vars
    /\ UNCHANGED run_vars

\* The predicate's guest code opens or advances an iterator.
VpIterCall ==
    /\ phase = "vp"
    /\ Running(vp_env)
    /\ Len(hist) < MaxIterCalls
    /\ \E c \in VpIterCalls :
          /\ vp_env' = prepare_vp_imports(vp_env, c)
          /\ hist' = Append(hist, Entry("vp", c, vp_env'))
    /\ UNCHANGED <<env, phase>>
    /\ UNCHANGED node_vars
    /\ UNCHANGED run_vars

IterNext == TxIterCall \/ TxReturn \/ VpIterCall

IterSpec == IterInit /\ [][IterNext]_vars

(***************************************************************************)
(* ParSpec: the predicates of the verifiers of one transaction run side by *)
(* side.  Every VpEnv refers to the one storage and the one write log of   *)
(* the transaction and owns its gas meter and its iterators; the host      *)
(* calls of the runs interleave.                                           *)
(***************************************************************************)
MaxParCalls == 2
ParVerifiers == {"A", "B"}

ParCalls ==
    VpIterCalls
    \cup {HostCall("_read_post", Some("BE/x"), None, GoodPtr),
          HostCall("_has_key_pre", Some("BE/y"), None, GoodPtr),
          HostCall("gas", None, Some(<<99>>), GoodPtr)}

\* The environment of a predicate: what it owns, over the storage and the
\* write log it refers to.
Sandboxed(addr) ==
    [sandbox.runs[addr] EXCEPT !.storage = sandbox.storage,
                               !.write_log = sandbox.write_log]

ParInit ==
    /\ AbcippShim_new
    /\ Unstarted
    /\ NoTransfer
    /\ NoMatchmaker
    /\ env = TxEnv(GenesisStorage)
    /\ vp_env = VpEnv("A", GenesisStorage, EmptyWriteLog)
    /\ phase = "idle"
    /\ hist = <<>>
    /\ \E ops \in IterPrograms, s \in IterStorages :
          sandbox = [state |-> "running",
                     storage |-> s,
                     write_log |-> RunTx(ops, TxEnv(s)).write_log,
                     runs |-> [addr \in ParVerifiers |->
                                 VpEnv(addr, s, RunTx(ops, TxEnv(s)).write_log)],
                     calls |-> [addr \in ParVerifiers |-> <<>>]]

\* The guest code of one of the predicates makes a host call.
ParVpCall ==
    /\ \E addr \in ParVerifiers, c \in ParCalls :
          /\ Running(sandbox.runs[addr])
          /\ Len(sandbox.calls[addr]) < MaxParCalls
          /\ sandbox' =
               [sandbox EXCEPT
                  !.storage = prepare_vp_imports(Sandboxed(addr), c).storage,
                  !.write_log = prepare_vp_imports(Sandboxed(addr), c).write_log,
                  !.runs[addr] = prepare_vp_imports(Sandboxed(addr), c),
                  !.calls[addr] = Append(@, c)]
    /\ UNCHANGED <<threads, server, token, matchmaker>>
    /\ UNCHANGED node_vars
    /\ UNCHANGED host_vars

ParNext == ParVpCall

ParSpec == ParInit /\ [][ParNext]_vars

\* ---------------------------------------------------------------------
\* AuctionSpec: the auction matchmaker (matchmaker/mm_template/src/lib.rs).
\*
\* matchmaker: AuctionMaker.auctions_map, with the clock reading and the
\* intent of the last add_intent.  Times are seconds from 0 to MaxNow.
\* ---------------------------------------------------------------------
MaxNow == 6
MaxBids == 2

\* The start, end and clearance of the auctions asked for: two well-ordered
\* ones, one that starts when it ends, one that clears before it ends.
AuctionTimes == {<<1, 3, 5>>, <<2, 4, 6>>, <<3, 3, 5>>, <<1, 5, 4>>}

CreateAuction(t) ==
    [auction_start |-> t[1], auction_end |-> t[2], auction_clearance |-> t[3]]
PlaceBid(auction_id, bid_id) == [auction_id |-> auction_id, bid_id |-> bid_id]
Auction(create_auction, place_bid) ==
    [create_auction |-> create_auction, place_bid |-> place_bid]
AuctionIntent(auctions) == [auctions |-> auctions]

\* Sha256 of intent.try_to_vec(), written in hexadecimal: equal intents have
\* equal keys, and no two intents of the model collide.
key_string(intent) == <<"sha256", intent>>

\* The intents that ask for auctions: one auction each, or two in one intent.
CreateIntents ==
    {AuctionIntent(<<Auction(Some(CreateAuction(t)), None)>>) : t \in AuctionTimes}
    \cup {AuctionIntent(<<Auction(Some(CreateAuction(<<1, 3, 5>>)), None),
                          Auction(Some(CreateAuction(<<2, 4, 6>>)), None)>>)}

\* The intents that bid: on the key of an intent that asked for an auction,
\* alone or with an auction that has neither a creation nor a bid.
BidIntents ==
    {AuctionIntent(<<Auction(None, Some(PlaceBid(key_string(i), b)))>>) :
        i \in CreateIntents, b \in {1}}
    \cup {AuctionIntent(<<Auction(None, None),
                          Auction(None, Some(PlaceBid(key_string(i), 1)))>>) :
            i \in {AuctionIntent(<<Auction(Some(CreateAuction(<<1, 3, 5>>)), None)>>)}}

AuctionIntents == CreateIntents \cup BidIntents

AuctionEntry(id, create_auction, intent) ==
    [id |-> id, create_auction |-> create_auction, intent |-> intent,
     bids |-> <<>>, result_calculated |-> FALSE]
BidEntry(id, place_bid, intent) ==
    [id |-> id, place_bid |-> place_bid, intent |-> intent]

\* What a call of add_auction_entry or add_bid_entry leaves: the map, and
\* whether the call panicked.
Added(auctions_map) == [auctions_map |-> auctions_map, panicked |-> FALSE]
AuctionPanic(auctions_map) == [auctions_map |-> auctions_map, panicked |-> TRUE]

\* A variant of add_auction_entry that inserts the entry over one the map
\* holds under the key.
add_auction_entry_replacing(auctions_map, id, auction, intent, now) ==
    LET auc == Unwrap(auction.create_auction) IN
    IF ~(now < auc.auction_start /\ auc.auction_start < auc.auction_end
            /\ auc.auction_end < auc.auction_clearance)
    THEN Added(auctions_map)
    ELSE Added(Upsert(auctions_map, key_string(intent),
                      AuctionEntry(id, auc, intent)))

add_auction_entry(auctions_map, id, auction, intent, now) ==
    LET auc == Unwrap(auction.create_auction) IN
    IF ~(now < auc.auction_start /\ auc.auction_start < auc.auction_end
            /\ auc.auction_end < auc.auction_clearance)
    THEN Added(auctions_map)
    ELSE IF key_string(intent) \in DOMAIN auctions_map
         THEN Added(auctions_map)
         ELSE Added(Upsert(auctions_map, key_string(intent),
                           AuctionEntry(id, auc, intent)))

\* calculated: whether the decoding of the bids, the creation of their files
\* and the run of the calculation all succeeded; a failure of one panics.
add_bid_entry(auctions_map, id, auction, intent, now, calculated) ==
    LET place_bid == Unwrap(auction.place_bid) IN
    IF place_bid.auction_id \notin DOMAIN auctions_map THEN Added(auctions_map)
    ELSE LET a == auctions_map[place_bid.auction_id] IN
         IF a.create_auction.auction_start < now /\ now < a.create_auction.auction_end
         THEN Added([auctions_map EXCEPT ![place_bid.auction_id].bids =
                        Append(@, BidEntry(id, place_bid, intent))])
         ELSE IF /\ ~a.result_calculated
                 /\ a.create_auction.auction_end < now
                 /\ now < a.create_auction.auction_clearance
              THEN IF calculated
                   THEN Added([auctions_map EXCEPT
                                  ![place_bid.auction_id].result_calculated = TRUE])
                   ELSE AuctionPanic(auctions_map)
              ELSE Added(auctions_map)

\* auctions.into_iter().for_each(..): each auction of the intent in turn,
\* from the i-th on, until one panics.
RECURSIVE for_each_auction(_, _, _, _, _, _)
for_each_auction(r, i, intent_id, intent, now, calculated) ==
    IF r.panicked \/ i > Len(intent.auctions) THEN r
    ELSE for_each_auction(
            IF IsSome(intent.auctions[i].create_auction)
            THEN add_auction_entry(r.auctions_map, intent_id, intent.auctions[i],
                                   intent, now)
            ELSE IF IsSome(intent.auctions[i].place_bid)
                 THEN add_bid_entry(r.auctions_map, intent_id, intent.auctions[i],
                                    intent, now, calculated)
                 ELSE r,
            i + 1, intent_id, intent, now, calculated)

\* The bids the model lets the maps hold.
BidsOf(auctions_map) ==
    LET RECURSIVE Sum(_)
        Sum(S) == IF S = {} THEN 0
                  ELSE LET k == CHOOSE x \in S : TRUE
                       IN  Len(auctions_map[k].bids) + Sum(S \ {k})
    IN  Sum(DOMAIN auctions_map)

\* AuctionMaker::default().
AuctionInit ==
    /\ matchmaker = [state |-> "running",
                     auctions_map |-> [k \in {} |-> AuctionEntry(<<>>, CreateAuction(<<0, 0, 0>>), None)],
                     now |-> 0, intent |-> None]
    /\ AbcippShim_new
    /\ Unstarted
    /\ NoTransfer
    /\ NoSandbox
    /\ env = TxEnv(GenesisStorage)
    /\ vp_env = VpEnv("A", GenesisStorage, EmptyWriteLog)
    /\ phase = "idle"
    /\ hist = <<>>

\* AddIntent::add_intent: the clock is read once and every auction of the
\* intent is added with that reading.
add_intent ==
    /\ matchmaker.state = "running"
    /\ BidsOf(matchmaker.auctions_map) < MaxBids
    /\ \E intent_id \in {<<1>>}, intent \in AuctionIntents,
          now \in 0 .. MaxNow, calculated \in BOOLEAN :
          LET r == for_each_auction(Added(matchmaker.auctions_map), 1,
                                    intent_id, intent, now, calculated)
          IN  matchmaker' = [state |-> IF r.panicked THEN "panicked" ELSE "running",
                             auctions_map |-> r.auctions_map,
                             now |-> now, intent |-> Some(intent)]
    /\ UNCHANGED <<threads, server, token, sandbox>>
    /\ UNCHANGED node_vars
    /\ UNCHANGED host_vars

AuctionNext == add_intent

AuctionSpec == AuctionInit /\ [][AuctionNext]_vars

(***************************************************************************)
(* Properties of the host environment (HostSpec).                          *)
(***************************************************************************)
\* What a read reports to the guest: found, with the bytes in the result
\* buffer, or not found, with the result buffer untouched.
Reports(h, varlen, value) ==
    IF IsSome(value)
    THEN /\ h.ret = (IF varlen THEN Some(Len(Unwrap(value))) ELSE Some(1))
         /\ h.buf = Some(Unwrap(value))
    ELSE /\ h.ret = (IF varlen THEN Some(-1) ELSE Some(0))
         /\ h.buf = None

ReportsKey(h, value) == h.ret = (IF IsSome(value) THEN Some(1) ELSE Some(0))

\* The value of a key in the post view: the staged modification when the
\* write log has one, the storage when it has none.
PostView(storage, log, key) ==
    IF key \in DOMAIN log
    THEN IF log[key].tag = "Delete" THEN None ELSE Some(log[key].value)
    ELSE storage[key]

\* The host calls of the history that returned to the guest, in a context.
Returned(ctx) == {i \in DOMAIN hist : hist[i].ctx = ctx /\ hist[i].fault = ""}

\* The key a call of the transaction stages a modification under.
StagedKey(c) ==
    CASE c.op \in {"_write", "_delete"} -> ArgKey(c.key)
      [] c.op = "_update_validity_predicate" -> Key_push(ArgKey(c.key), "?")
      [] c.op = "_init_account" -> VpKey(RawAddress_hash(ArgAddr(c.key)))
      [] OTHER -> <<>>

\* Call i is the last call before call j that stages a modification of key.
LastStaged(i, j, key) ==
    /\ i < j
    /\ StagedKey(hist[i].c) = key
    /\ \A m \in (i + 1) .. (j - 1) : StagedKey(hist[m].c) # key

\* C5: a predicate's read_pre, read_pre_varlen and has_key_pre of a key report
\* what the committed storage holds under the key, whatever the write log
\* holds; its read_post, read_post_varlen and has_key_post report the staged
\* modification of the key when the write log has one (a written value is
\* found, a deleted key is not found) and what the storage holds when it has
\* none.
C5_PrePostIsolation ==
    \A i \in Returned("vp") :
        LET h == hist[i]
            key == ArgKey(h.c.key)
            pre == vp_env.storage[key]
            post == PostView(vp_env.storage, vp_env.write_log, key)
        IN  /\ h.c.op = "_read_pre" => Reports(h, FALSE, pre)
            /\ h.c.op = "_read_pre_varlen" => Reports(h, TRUE, pre)
            /\ h.c.op = "_has_key_pre" => ReportsKey(h, pre)
            /\ h.c.op = "_read_post" => Reports(h, FALSE, post)
            /\ h.c.op = "_read_post_varlen" => Reports(h, TRUE, post)
            /\ h.c.op = "_has_key_post" => ReportsKey(h, post)

\* A predicate has read a key in the pre view and in the post view, and the
\* write log shadows the storage under the key with something else.
C5_Witness ==
    \E i, j \in Returned("vp") :
        /\ hist[i].c.op = "_read_pre" /\ hist[j].c.op = "_read_post"
        /\ hist[i].c.key = Some("k") /\ hist[j].c.key = Some("k")
        /\ <<"k">> \in DOMAIN vp_env.write_log
        /\ PostView(vp_env.storage, vp_env.write_log, <<"k">>) # vp_env.storage[<<"k">>]
        /\ IsSome(vp_env.storage[<<"k">>])

\* C6: after a write(k, v) of the transaction that returned, a read(k) of the
\* same transaction with no later modification of k in between reports found
\* with exactly v, whatever the storage holds under k.
C6_ReadAfterWrite ==
    \A i, j \in Returned("tx") :
        /\ hist[i].c.op = "_write"
        /\ hist[j].c.op \in {"_read", "_read_varlen"}
        /\ ArgKey(hist[j].c.key) = ArgKey(hist[i].c.key)
        /\ LastStaged(i, j, ArgKey(hist[i].c.key))
        => Reports(hist[j], hist[j].c.op = "_read_varlen", hist[i].c.value)

\* A read has followed a second write of the key, with a value that is neither
\* the first written nor the one the storage holds.
C6_Witness ==
    \E i, j \in Returned("tx") :
        /\ i = 2 /\ j = 3
        /\ hist[1].c.op = "_write" /\ hist[1].c.key = Some("k")
        /\ hist[i].c.op = "_write" /\ hist[i].c.key = Some("k")
        /\ hist[j].c.op = "_read" /\ hist[j].c.key = Some("k")
        /\ hist[i].c.value # hist[1].c.value
        /\ hist[i].c.value # env.storage[<<"k">>]
        /\ IsSome(env.storage[<<"k">>])

\* C7: after a delete(k) of the transaction that returned, with no later
\* modification of k in between, read(k) reports not found (0, and -1 for the
\* variable-length read) and has_key(k) reports 0, whatever the storage holds
\* under k and whatever the transaction staged under k before.
C7_ReadAfterDelete ==
    \A i, j \in Returned("tx") :
        /\ hist[i].c.op = "_delete"
        /\ ArgKey(hist[j].c.key) = ArgKey(hist[i].c.key)
        /\ LastStaged(i, j, ArgKey(hist[i].c.key))
        => /\ hist[j].c.op = "_read" => Reports(hist[j], FALSE, None)
           /\ hist[j].c.op = "_read_varlen" => Reports(hist[j], TRUE, None)
           /\ hist[j].c.op = "_has_key" => ReportsKey(hist[j], None)

\* A key the storage holds was written, then deleted, then asked for.
C7_Witness ==
    /\ Len(hist) = 3
    /\ {1, 2, 3} \subseteq Returned("tx")
    /\ hist[1].c.op = "_write" /\ hist[1].c.key = Some("k")
    /\ hist[2].c.op = "_delete" /\ hist[2].c.key = Some("k")
    /\ hist[3].c.op = "_has_key" /\ hist[3].c.key = Some("k")
    /\ IsSome(env.storage[<<"k">>])

(***************************************************************************)
(* Properties of the block lifecycle (Spec).                               *)
(***************************************************************************)
\* The storage with the modifications of a write log applied to it.
Applied(storage, log) == [key \in Keys |-> PostView(storage, log, key)]

\* The storage with the write logs of the transactions S of a finalized block
\* applied to it in the order of the block.
RECURSIVE AppliedFrom(_, _, _, _)
AppliedFrom(storage, results, S, i) ==
    IF i > Len(results) THEN storage
    ELSE AppliedFrom(IF i \in S THEN Applied(storage, results[i].write_log) ELSE storage,
                     results, S, i + 1)

\* A transaction of a finalized block whose code ran and whose predicates all
\* accepted; one that a predicate rejected.
Accepted(r) ==
    /\ r.tx.kind \in {"Raw", "Decrypted"} /\ r.judged
    /\ \A a \in DOMAIN r.verdicts : r.verdicts[a]
Rejected(r) ==
    /\ r.tx.kind \in {"Raw", "Decrypted"} /\ r.judged
    /\ \E a \in DOMAIN r.verdicts : ~r.verdicts[a]

\* The step is the finalization of a block: EndBlock with its FinalizeBlock.
Finalizes == EndBlock /\ rsp'.type = "EndBlock"

\* C1: when a block is finalized, a key of the committed storage changes only
\* to what a transaction of the block staged under it whose predicates all
\* accepted: what a transaction with a rejecting predicate staged is not
\* merged.
C1_MergeOnlyIfAllAccept ==
    [][Finalizes =>
        \A key \in Keys :
            shell'.storage[key] # shell.storage[key] =>
                \E i \in DOMAIN rsp'.body :
                    /\ Accepted(rsp'.body[i])
                    /\ key \in DOMAIN rsp'.body[i].write_log
                    /\ shell'.storage[key]
                         = PostView(shell.storage, rsp'.body[i].write_log, key)]_vars

\* A block was finalized whose only transaction staged a write of a new value
\* that a predicate rejected, and the storage holds the old value.
C1_Witness ==
    /\ rsp.type = "EndBlock" /\ Len(rsp.body) = 1
    /\ Rejected(rsp.body[1])
    /\ <<"k">> \in DOMAIN rsp.body[1].write_log
    /\ rsp.body[1].write_log[<<"k">>].tag = "Write"
    /\ shell.storage[<<"k">>] # Some(rsp.body[1].write_log[<<"k">>].value)

\* C2: the finalization of a block applies the write logs of some of the
\* transactions of the block, each in full, and drops the buffered runs; no
\* other step but the initialization of the chain changes the storage, so
\* that a write log is merged at most once and a discarded one never.
C2_MergeAtomicOnce ==
    [][/\ Finalizes =>
            /\ \E S \in SUBSET DOMAIN rsp'.body :
                    shell'.storage = AppliedFrom(shell.storage, rsp'.body, S, 1)
            /\ shell'.executed = <<>>
       /\ shell'.storage # shell.storage => Finalizes \/ InitChain]_vars

\* A block was finalized with an accepted transaction that staged more than
\* one modification and one of another transaction that was discarded.
C2_Witness ==
    /\ rsp.type = "EndBlock"
    /\ \E i, j \in DOMAIN rsp.body :
        /\ Accepted(rsp.body[i])
        /\ Cardinality(DOMAIN rsp.body[i].write_log) > 1
        /\ Rejected(rsp.body[j])
        /\ Cardinality(DOMAIN rsp.body[j].write_log) > 1

\* C3: when a block is finalized, what an accepted transaction staged under
\* a key is in the storage, unless a later accepted transaction of the block
\* staged the key again, wherever the rejected transactions of the block are.
C3_RejectionIsLocal ==
    [][Finalizes =>
        \A i \in DOMAIN rsp'.body :
            Accepted(rsp'.body[i]) =>
                \A key \in DOMAIN rsp'.body[i].write_log :
                    \/ \E j \in DOMAIN rsp'.body :
                          /\ j > i /\ Accepted(rsp'.body[j])
                          /\ key \in DOMAIN rsp'.body[j].write_log
                    \/ shell'.storage[key]
                         = PostView(shell.storage, rsp'.body[i].write_log, key)]_vars

\* A block was finalized with an accepted transaction between two rejected
\* ones, and what it staged is in the storage.
C3_Witness ==
    /\ rsp.type = "EndBlock" /\ Len(rsp.body) = 3
    /\ Rejected(rsp.body[1]) /\ Accepted(rsp.body[2]) /\ Rejected(rsp.body[3])
    /\ rsp.body[2].write_log # EmptyWriteLog
    /\ \A key \in DOMAIN rsp.body[2].write_log :
          shell.storage[key] = PostView(GenesisStorage, rsp.body[2].write_log, key)
    /\ shell.storage # GenesisStorage

C8_CheckTxNoEffect ==
    [][(CheckTx /\ rsp'.type = "CheckTx") =>
            UNCHANGED <<node, begin_block_request, block_txs, shell, delivered>>]_vars

\* A well-formed transaction was checked between a DeliverTx and the end of
\* the block.
C8_Witness ==
    /\ rsp.type = "CheckTx" /\ rsp.body = 0
    /\ forwarded[1].arg.type = 1
    /\ block_txs # <<>> /\ shell.executed # <<>>
    /\ IsSome(begin_block_request)

\* C9: a Query step answers with the value the key has in the state committed
\* at the requested height, or with an error code when no such height is
\* committed, whatever the transactions of the current block staged or
\* merged since, and changes nothing but the response and the record of the
\* forwarded request.
C9_QueryCommittedOnly ==
    [][Query =>
        /\ UNCHANGED <<node, begin_block_request, block_txs, shell, delivered>>
        /\ LET q == forwarded'[1].arg
           IN  IF q.height + 1 \in DOMAIN shell.committed
               THEN rsp'.body = [code |-> 0, value |-> shell.committed[q.height + 1][q.key]]
               ELSE rsp'.body.code # 0]_vars

\* A query was answered at a committed height while a block that changed the
\* key was finalized and not committed, and a run that stages the key again
\* is buffered.
C9_Witness ==
    /\ rsp.type = "Query" /\ rsp.body.code = 0
    /\ shell.storage[<<"k">>] # shell.committed[Len(shell.committed)][<<"k">>]
    /\ forwarded[1].arg.height + 1 = Len(shell.committed)
    /\ rsp.body.value = shell.committed[Len(shell.committed)][<<"k">>]
    /\ \E i \in DOMAIN shell.executed : <<"k">> \in DOMAIN shell.executed[i].write_log

\* The decrypted transactions of a finalized block.
Decrypted(results) == {i \in DOMAIN results : results[i].tx.kind = "Decrypted"}

\* C10: at an EndBlock that finalizes a block, when a buffered result has a
\* code above 3 the queue is reset, then FinalizeBlock is issued with
\* reject_all_decrypted set, the storage is what the accepted transactions
\* that are not decrypted ones make it, and the wrappers wait in the queue
\* to be matched again; when no buffered result has a code above 3,
\* FinalizeBlock alone is issued, with reject_all_decrypted not set.
C10_ReorderingRollback ==
    [][Finalizes =>
        IF \E i \in DOMAIN block_txs : block_txs[i].result.code > 3
        THEN /\ Len(forwarded') = 2
             /\ forwarded'[1].type = "reset_queue"
             /\ forwarded'[2].type = "FinalizeBlock"
             /\ forwarded'[2].arg.reject_all_decrypted
             /\ forwarded'[2].arg.txs = block_txs
             /\ shell'.storage
                  = AppliedFrom(shell.storage, rsp'.body,
                                {i \in DOMAIN rsp'.body : Accepted(rsp'.body[i])}
                                    \ Decrypted(rsp'.body), 1)
             /\ shell'.next_wrapper = 0
             /\ \A i \in DOMAIN shell.tx_queue : shell'.tx_queue[i] = shell.tx_queue[i]
        ELSE /\ Len(forwarded') = 1
             /\ forwarded'[1].type = "FinalizeBlock"
             /\ ~forwarded'[1].arg.reject_all_decrypted
             /\ forwarded'[1].arg.txs = block_txs]_vars

\* A block was finalized in which a decrypted transaction came in order, ran
\* and staged a new value, and a second one had no wrapper left: the queue
\* was reset and the storage does not hold the value.
C10_Witness ==
    /\ rsp.type = "EndBlock" /\ Len(forwarded) = 2
    /\ \E i, j \in Decrypted(rsp.body) :
        /\ forwarded[2].arg.txs[i].result.code = 0
        /\ forwarded[2].arg.txs[j].result.code = 5
        /\ rsp.body[i].write_log[<<"k">>].tag = "Write"
        /\ shell.storage[<<"k">>] # Some(rsp.body[i].write_log[<<"k">>].value)
    /\ shell.tx_queue # <<>> /\ shell.next_wrapper = 0

(***************************************************************************)
(* Properties of the adapter (Spec).                                       *)
(***************************************************************************)
\* The FinalizeBlock requests among the Shell operations of the last request.
FinalizeRequests == {i \in DOMAIN forwarded : forwarded[i].type = "FinalizeBlock"}

\* C11: a DeliverTx appends to the buffer the delivered transaction paired
\* with the result its own ProcessProposal returned; an EndBlock that is
\* served issues exactly one FinalizeBlock, whose transactions are the buffer
\* as it is (the transactions delivered since the previous EndBlock, in
\* delivery order), and leaves the buffer empty and the saved BeginBlock
\* cleared; no other request changes the buffer or issues a FinalizeBlock.
C11_OneFinalizePerBlock ==
    [][/\ rsp'.type = "DeliverTx" =>
            /\ Len(forwarded') = 1 /\ forwarded'[1].type = "ProcessProposal"
            /\ block_txs' = Append(block_txs,
                    ProcessedTx(forwarded'[1].arg,
                                Shell_call(shell, forwarded'[1]).rsp.body))
       /\ Finalizes =>
            /\ Cardinality(FinalizeRequests') = 1
            /\ forwarded'[Len(forwarded')].type = "FinalizeBlock"
            /\ forwarded'[Len(forwarded')].arg.txs = block_txs
            /\ block_txs' = <<>>
            /\ begin_block_request' = None
       /\ rsp'.type \notin {"DeliverTx", "EndBlock", "Panic"} =>
            /\ block_txs' = block_txs
            /\ FinalizeRequests' = {}
      ]_vars

\* A block of two different transactions with different results has been
\* finalized in one request.
C11_Witness ==
    /\ rsp.type = "EndBlock"
    /\ FinalizeRequests # {}
    /\ Len(forwarded[Len(forwarded)].arg.txs) = 2
    /\ forwarded[Len(forwarded)].arg.txs[1].tx # forwarded[Len(forwarded)].arg.txs[2].tx
    /\ forwarded[Len(forwarded)].arg.txs[1].result # forwarded[Len(forwarded)].arg.txs[2].result
    /\ block_txs = <<>> /\ begin_block_request = None

\* The requests of the internal contract the adapter translates to.
InternalRequests == {"InitChain", "ProcessProposal", "FinalizeBlock", "Commit", "Query", "CheckTx"}

\* C12: every Shell operation the adapter invokes is a forwarded request of
\* the internal contract, and the reject_all_decrypted field of a FinalizeBlock
\* request does not follow the results of the buffered transactions: the
\* adapter has nothing else to decide it from (EndBlock carries a height), so
\* it is what it is for a block of accepted transactions, false.
C12_NoBusinessLogic ==
    [][\A i \in DOMAIN forwarded' :
          /\ forwarded'[i].type \in InternalRequests
          /\ forwarded'[i].type = "FinalizeBlock" =>
                ~forwarded'[i].arg.reject_all_decrypted
      ]_vars

(***************************************************************************)
(* Properties of the iterators (IterSpec).                                 *)
(***************************************************************************)
\* The calls before call j that advanced iterator id in a context with one
\* of the imports ops and gave the guest an entry.
Yields(ctx, ops, id, j) ==
    {m \in 1 .. (j - 1) :
        /\ hist[m].ctx = ctx /\ hist[m].c.op \in ops /\ hist[m].fault = ""
        /\ ArgInt(hist[m].c) = id
        /\ hist[m].buf # None}

\* Call i opened the iterator that call j advances.
Advances(i, j) ==
    /\ i < j
    /\ hist[i].c.op = "_iter_prefix"
    /\ hist[i].ret = Some(ArgInt(hist[j].c))

\* The committed keys under a prefix that the write log does not hide, in
\* key order, and the entry the guest is given for one of them.
Visible(storage, log, prefix) ==
    LET Shown(key) ==
            /\ Key_has_prefix(key, prefix) /\ IsSome(storage[key])
            /\ key \in DOMAIN log => log[key].tag = "Write"
    IN  SelectSeq(KeyOrder, Shown)

VisibleEntry(storage, log, key) ==
    KeyVal_try_to_vec(Key_to_string(key),
                      IF key \in DOMAIN log THEN log[key].value ELSE Unwrap(storage[key]))

\* C13: in a transaction, the n-th advance of an iterator over a prefix that
\* returns gives the n-th committed key under the prefix, in key order, that
\* has no staged Delete and no staged InitAccount, with the staged value when
\* the key has a staged Write and the committed value otherwise; once these
\* keys are all given an advance reports not found.  One advance passes over
\* all the hidden entries before the next visible one.
C13_TxIteration ==
    \A i, j \in Returned("tx") :
        /\ hist[j].c.op \in {"_iter_next", "_iter_next_varlen"}
        /\ Advances(i, j)
        => LET vis == Visible(env.storage, env.write_log, ArgKey(hist[i].c.key))
               n == Cardinality(Yields("tx", {"_iter_next", "_iter_next_varlen"},
                                       ArgInt(hist[j].c), j))
           IN  Reports(hist[j], hist[j].c.op = "_iter_next_varlen",
                       IF n < Len(vis)
                       THEN Some(VisibleEntry(env.storage, env.write_log, vis[n + 1]))
                       ELSE None)

\* The storage holds BE/?, BE/x and BE/y; the transaction staged an
\* InitAccount under BE/? and a Delete under BE/x; the first advance gave
\* BE/y and the second reported not found.
C13_Witness ==
    /\ Len(hist) = 3 /\ {1, 2, 3} \subseteq Returned("tx")
    /\ hist[1].c.op = "_iter_prefix" /\ hist[1].c.key = Some("BE")
    /\ hist[2].c.op = "_iter_next" /\ hist[3].c.op = "_iter_next_varlen"
    /\ hist[2].ret = Some(1) /\ hist[3].ret = Some(-1)
    /\ IsSome(env.storage[<<"BE", "x">>]) /\ IsSome(env.storage[<<"BE", "y">>])
    /\ VpKey("BE") \in DOMAIN env.write_log /\ <<"BE", "x">> \in DOMAIN env.write_log
    /\ env.write_log[VpKey("BE")].tag = "InitAccount"
    /\ env.write_log[<<"BE", "x">>].tag = "Delete"

\* The advances of the post view and of the pre view.
PostNext == {"_iter_post_next", "_iter_post_next_varlen"}
PreNext == {"_iter_pre_next", "_iter_pre_next_varlen"}

\* C14: when a predicate has advanced an iterator over a prefix with
\* iter_post_next only and an advance reports not found, the entries it was
\* given are exactly the keys under the prefix that has_key_post reports
\* present (those with a value in the post view), each with the value
\* read_post reports, whether the storage holds the key or not.
C14_PostIteration ==
    \A i, j \in Returned("vp") :
        /\ hist[j].c.op \in PostNext
        /\ Advances(i, j)
        /\ hist[j].buf = None
        /\ \A m \in 1 .. (j - 1) : hist[m].c.op \notin PreNext
        => {hist[m].buf : m \in Yields("vp", PostNext, ArgInt(hist[j].c), j)}
           = {Some(KeyVal_try_to_vec(Key_to_string(key),
                        Unwrap(PostView(vp_env.storage, vp_env.write_log, key)))) :
                key \in {k \in Keys :
                            /\ Key_has_prefix(k, ArgKey(hist[i].c.key))
                            /\ IsSome(PostView(vp_env.storage, vp_env.write_log, k))}}

\* What a fixed-size call (f) and its variable-length twin (v) leave behind
\* agree: the same environment but for the returned status, 1 exactly when
\* the twin returns the number of bytes written and 0 exactly when it
\* returns -1.
Agree(f, v) ==
    /\ [f EXCEPT !.ret = None] = [v EXCEPT !.ret = None]
    /\ f.ret = Some(1) <=>
            /\ v.ret # None /\ v.result_buf # None
            /\ Unwrap(v.ret) >= 0
            /\ Unwrap(v.ret) = Len(Unwrap(v.result_buf))
    /\ f.ret = Some(0) <=> v.ret = Some(-1)

\* The key arguments and result pointers the two families are compared on.
ReadArgs == {Some("k"), Some("BE/x"), Some(""), None}
Ptrs == {GoodPtr, BadPtr}

Called == Len(hist') = Len(hist) + 1
LastCall == hist'[Len(hist')]

\* C16: from one step to the next neither the meter of the transaction nor
\* the meter of the predicate decreases, whatever amount the guest asks to
\* be charged, and neither returns to a lower count.
C16_GasMonotone ==
    [][/\ env'.gas_meter >= env.gas_meter
       /\ vp_env'.gas_meter >= vp_env.gas_meter]_vars

\* The guest asked for a negative amount after other charges and the meter
\* did not go down.
C16_Witness ==
    /\ Len(hist) >= 2
    /\ hist[Len(hist)].ctx = "vp"
    /\ hist[Len(hist)].c.op = "gas"
    /\ ArgInt(hist[Len(hist)].c) = -1
    /\ hist[Len(hist) - 1].ctx = "vp"
    /\ vp_env.gas_meter > 0
    /\ env.gas_meter > 0

\* The calls of the transaction that stage a modification or a verifier.
MutatingOps ==
    {"_write", "_delete", "_update_validity_predicate", "_insert_verifier",
     "_init_account"}

\* C17: when a gas charge of a write, delete, update_validity_predicate,
\* insert_verifier or init_account call exceeds the limit, the write log and
\* the verifiers are at the abort what they were when the call was entered.
C17_GasAbortBeforeMutation ==
    [][/\ Called
       /\ LastCall.ctx = "tx"
       /\ LastCall.c.op \in MutatingOps
       /\ LastCall.fault = "gas"
       => /\ env'.write_log = env.write_log
          /\ env'.verifiers = env.verifiers]_vars

\* C18: a meter above its limit has stopped its invocation; the call whose
\* charge failed returned nothing to the guest and is the last call of the
\* history, so that no later call read, wrote, iterated or charged gas.
C18_GasAbortsInvocation ==
    /\ [](/\ env.gas_meter > TxGasLimit => env.aborted = "gas"
          /\ vp_env.gas_meter > VpGasLimit => vp_env.aborted = "gas"
          /\ \A i \in DOMAIN hist :
                hist[i].fault = "gas" => hist[i].ret = None /\ i = Len(hist))
    /\ [][/\ env.aborted = "gas" => env' = env
          /\ vp_env.aborted = "gas" => vp_env' = vp_env]_vars

\* A predicate's read failed on its gas charge after an earlier call.
C18_Witness ==
    /\ Len(hist) >= 2
    /\ hist[Len(hist)].ctx = "vp"
    /\ hist[Len(hist)].c.op \in {"_read_pre", "_read_post"}
    /\ hist[Len(hist)].fault = "gas"
    /\ vp_env.gas_meter > VpGasLimit

\* The arguments of a call the host cannot read or parse: a string or bytes
\* outside the guest's memory, a key or an address that does not parse.
KeyOps ==
    {"_read", "_read_varlen", "_has_key", "_write", "_delete",
     "_read_pre", "_read_post", "_read_pre_varlen", "_read_post_varlen",
     "_has_key_pre", "_has_key_post", "_update_validity_predicate"}
AddressOps == {"_insert_verifier", "_init_account"}
ValueOps == {"_write", "_update_validity_predicate", "_init_account"}

BadArgs(c) ==
    \/ c.op \in KeyOps \cup AddressOps /\ ~Memory_read_string(c.key).ok
    \/ c.op \in KeyOps /\ ~IsSome(Key_parse(Memory_read_string(c.key).data))
    \/ c.op \in AddressOps /\ ~IsSome(RawAddress_parse(Memory_read_string(c.key).data))
    \/ c.op \in ValueOps /\ ~Memory_read_bytes(c.value).ok

Serves(type) == last_req'.type = type /\ vars' # vars

\* C22: the response to the DeliverTx of a transaction carries the gas the
\* run of the transaction used.
C22_DeliverTxCarriesGas ==
    [][Serves("DeliverTx") =>
        /\ rsp'.type = "DeliverTx"
        /\ rsp'.body.gas_used = shell'.executed[Len(shell'.executed)].gas]_vars

\* The write logs a block merged were all empty.
NothingMerged(results) ==
    \A i \in DOMAIN results :
        results[i].merged => results[i].write_log = EmptyWriteLog

\* C25: a commit returns the root of the state and leaves the state as it
\* is; the end of a block that merged no modification and every request
\* other than InitChain and EndBlock leave the state as it is: the root of
\* a commit after a block without modifications, and of any number of
\* commits after it, is the root of the commit before.
C25_EmptyCommitKeepsRoot ==
    /\ [][Serves("Commit") =>
            /\ rsp'.body = MerkleRoot(shell.storage)
            /\ shell'.storage = shell.storage
            /\ shell'.committed = Append(shell.committed, shell.storage)
            /\ shell.storage = shell.committed[Len(shell.committed)] =>
                  rsp'.body = MerkleRoot(shell.committed[Len(shell.committed)])]_vars
    /\ [][Serves("EndBlock") /\ rsp'.type = "EndBlock" /\ NothingMerged(rsp'.body) =>
            shell'.storage = shell.storage]_vars
    /\ [][last_req'.type \notin {"InitChain", "EndBlock"} =>
            shell'.storage = shell.storage]_vars

\* Two commits in a row after transactions were delivered, with the state
\* of the three heights the same.
C25_Witness ==
    /\ last_req.type = "Commit"
    /\ rsp.type = "Commit"
    /\ delivered >= 1
    /\ Len(shell.committed) = 3
    /\ shell.committed[3] = shell.committed[2]
    /\ shell.committed[2] = shell.committed[1]
    /\ rsp.body = MerkleRoot(shell.committed[1])

\* C29: a BeginBlock with a malformed hash or header and an EndBlock with
\* an invalid height are answered with an error, the node keeps running and
\* the shell is as it was.
C29_InvalidRequestAnswered ==
    [][/\ last_req'.type \in {"BeginBlock", "EndBlock"}
       /\ vars' # vars
       /\ ~last_req'.arg.valid
       => /\ rsp'.type = "Error"
          /\ node' = "running"
          /\ shell' = shell]_vars

(***************************************************************************)
(* Determinism of the predicate phase (Spec).                              *)
(***************************************************************************)
\* The runs buffered for the block whose predicates are still to be run.
Pending == {i \in DOMAIN shell.executed : shell.executed[i].ran}

C23_RejectedAndFailedCodes ==
    [][Serves("DeliverTx") /\ last_req'.arg.kind = "Raw" =>
        /\ rsp'.body.info = "Ok(rejected)" => rsp'.body.code = CodeInvalidTx
        /\ rsp'.body.info = "Err" => rsp'.body.code = CodeRuntimeError
        /\ rsp'.body.info # "Ok(accepted)" =>
              /\ shell'.storage = shell.storage
              /\ node' = "running"]_vars

\* ---------------------------------------------------------------------
\* The ABCI server applies the requests of the consensus connection one at
\* a time.
\* ---------------------------------------------------------------------
OfConsensus(requests) ==
    SelectSeq(requests, LAMBDA req : req.category = "consensus")

StartsWith(requests, applied) ==
    /\ Len(applied) <= Len(requests)
    /\ SubSeq(requests, 1, Len(applied)) = applied

\* C26: the consensus requests (InitChain, BeginBlock, DeliverTx, EndBlock,
\* Commit) are applied to the Shell one at a time and in the order they
\* arrived: while one of them is inside the shim's call no other request,
\* of the consensus, mempool, info or snapshot connection, is inside it, and
\* the consensus requests applied so far are the first of those that
\* arrived, in the same order.
C26_ConsensusOneAtATime ==
    /\ \A req \in server.in_call :
          req.category = "consensus" => server.in_call = {req}
    /\ StartsWith(OfConsensus(server.arrived), OfConsensus(server.applied))

\* A second consensus request is inside the call, a mempool request was
\* applied between the two and an info request waits in the buffer.
C26_Witness ==
    /\ Len(server.applied) = 3
    /\ server.applied[1].category = "consensus"
    /\ server.applied[2].category = "mempool"
    /\ server.in_call = {server.applied[3]}
    /\ server.applied[3].category = "consensus"
    /\ server.buffer # <<>>
    /\ Head(server.buffer).category = "info"

\* ---------------------------------------------------------------------
\* Shutdown of the two threads of run().
\* ---------------------------------------------------------------------
ShellTerminated == threads.exited \/ threads.sh \in {"done", "panicked"}

\* C27: whenever tendermint_node::run has come back in the Tendermint
\* thread, by a normal return, by an error or by a panic, the shell's server
\* future is eventually aborted and the shell thread terminates.
C27_TendermintEndStopsShell ==
    (threads.tm # "node") ~> ShellTerminated

\* C28: whenever the shell thread has stopped, by a panic or otherwise,
\* while the Tendermint node runs, an abort signal is eventually sent to
\* the Tendermint node, unless the node has ended by itself before.
C28_ShellEndAbortsTendermint ==
    (threads.sh \in {"done", "panicked"} /\ threads.tm = "node")
        ~> (threads.abort_chan # <<>> \/ threads.tm # "node")

\* ---------------------------------------------------------------------
\* The token predicate on a sent token.
\* ---------------------------------------------------------------------
Numerals == <<"0", "1", "2">>

\* The balance a view holds for an account, an absent one counting as zero.
BalanceOrZero(view, key) ==
    IF view[key] = None THEN 0 ELSE Unwrap(view[key])[1]

Decodable(view, key) ==
    view[key] = None \/ Len(Unwrap(view[key])) = 1

\* C30: when a token is sent, the token predicate accepts if and only if
\* the message is well formed and the balance of the target account (the
\* burn account when the denomination begins with the source port and
\* channel, the escrow account of that port and channel otherwise) is, after
\* the transaction, its balance before plus the amount of the message, an
\* absent balance counting as zero; for any other staged change it rejects.
C30_SendingAcceptsExactDelta ==
    token.state = "validated" /\ token.msg.kind = "Ics20Msg" =>
        LET msg == token.msg
            last == msg.denomination[Len(msg.denomination)]
            sink == /\ Len(msg.denomination) > 2
                    /\ <<msg.denomination[1], msg.denomination[2]>>
                          = <<msg.source_port, msg.source_channel>>
            target == IF sink THEN <<"Burn">>
                      ELSE <<"IbcEscrow", msg.source_port, msg.source_channel>>
            key == <<"balance", last, target>>
        IN  (token.result.ok /\ token.result.value) <=>
               /\ last \in Addresses
               /\ \E n \in DOMAIN Numerals :
                     /\ Numerals[n] = msg.amount
                     /\ Decodable(token.pre, key)
                     /\ Decodable(token.post, key)
                     /\ BalanceOrZero(token.post, key)
                           - BalanceOrZero(token.pre, key) = n - 1

\* In the sink zone a transaction that burns 1 of a token whose burn
\* account held nothing is accepted.
C30_Witness ==
    /\ token.state = "validated"
    /\ token.msg.kind = "Ics20Msg"
    /\ token.msg.denomination = <<"p", "c", "A">>
    /\ token.msg.amount = "1"
    /\ token.pre[<<"balance", "A", <<"Burn">>>>] = None
    /\ token.post[<<"balance", "A", <<"Burn">>>>] = Some(<<1>>)
    /\ token.result.ok

\* ---------------------------------------------------------------------
\* The token predicate on a received or refunded token.
\* ---------------------------------------------------------------------
\* C31: when a token is received or refunded, the token predicate accepts
\* only if the source account it checks (the escrow account or the mint
\* account) is debited by exactly the amount of the packet: its balance
\* after the transaction minus its balance before is minus the amount.
C31_SourceDebitedByAmount ==
    /\ token.state = "validated"
    /\ token.msg.kind \in {"RecvPacket", "ToPacket", "ToClosePacket"}
    /\ token.result.ok
    => LET msg == token.msg
           last == msg.denomination[Len(msg.denomination)]
           prefixed == /\ Len(msg.denomination) > 2
                       /\ <<msg.denomination[1], msg.denomination[2]>>
                             = <<msg.source_port, msg.source_channel>>
           source ==
               IF msg.kind = "RecvPacket"
               THEN IF prefixed
                    THEN <<"IbcEscrow", msg.destination_port,
                           msg.destination_channel>>
                    ELSE <<"Mint">>
               ELSE IF prefixed THEN <<"Mint">>
                    ELSE <<"IbcEscrow", msg.source_port, msg.source_channel>>
           key == <<"balance", last, source>>
       IN  \E n \in DOMAIN Numerals :
              /\ Numerals[n] = msg.amount
              /\ BalanceOrZero(token.post, key)
                    - BalanceOrZero(token.pre, key) = 0 - (n - 1)

\* ---------------------------------------------------------------------
\* Accounts and verifiers of a transaction (HostSpec).
\* ---------------------------------------------------------------------
\* The raw address a call names.
RawArg(c) == Unwrap(c.key)

\* C32: after an init_account call that returned, the write log holds
\* InitAccount with the code and the parent for the address, and the parent
\* is in the verifier set of the transaction; the verifier set only grows,
\* and every address of an insert_verifier call that returned is in it from
\* then on.
C32_InitAccountVerifiedByParent ==
    /\ [][/\ env.verifiers \subseteq env'.verifiers
          /\ Called /\ LastCall.ctx = "tx" /\ LastCall.fault = ""
                /\ LastCall.c.op = "_init_account" =>
                LET addr == RawArg(LastCall.c)
                    parent == RawAddress_hash(RawAddress_parent(addr))
                IN  /\ VpKey(RawAddress_hash(addr)) \in DOMAIN env'.write_log
                    /\ env'.write_log[VpKey(RawAddress_hash(addr))]
                          = [tag |-> "InitAccount",
                             value |-> Unwrap(LastCall.c.value),
                             parent |-> parent]
                    /\ parent \in env'.verifiers]_vars
    /\ [](\A i \in DOMAIN hist :
            /\ hist[i].ctx = "tx"
            /\ hist[i].fault = ""
            /\ hist[i].c.op = "_insert_verifier"
            => RawAddress_hash(RawArg(hist[i].c)) \in env.verifiers)

\* The transaction inserted the verifier a, then initialised the account
\* b.e: the parent B joined A in the verifier set.
C32_Witness ==
    /\ Len(hist) = 2
    /\ hist[1].c.op = "_insert_verifier"
    /\ hist[1].fault = ""
    /\ hist[2].c.op = "_init_account"
    /\ hist[2].c.key = Some("b.e")
    /\ hist[2].fault = ""
    /\ env.verifiers = {"A", "B"}
    /\ VpKey("BE") \in DOMAIN env.write_log

\* ---------------------------------------------------------------------
\* The views of the predicates of the transactions of one block (Spec).
\* ---------------------------------------------------------------------
\* The storage once the write logs of the first n results that were merged
\* are applied to it, in the order of the block.
RECURSIVE MergedUpTo(_, _, _)
MergedUpTo(storage, results, n) ==
    IF n = 0 THEN storage
    ELSE IF results[n].merged
         THEN Merge(MergedUpTo(storage, results, n - 1), results[n].write_log)
         ELSE MergedUpTo(storage, results, n - 1)

Own(e) ==
    [gas_meter |-> e.gas_meter, iterators |-> e.iterators, aborted |-> e.aborted,
     ret |-> e.ret, result_buf |-> e.result_buf]

\* The run of a predicate that makes the calls by itself.
RECURSIVE Alone(_, _)
Alone(e, calls) ==
    IF calls = <<>> THEN e
    ELSE prepare_vp_imports(Alone(e, SubSeq(calls, 1, Len(calls) - 1)),
                            calls[Len(calls)])

\* C34: however the host calls of the predicates of one transaction
\* interleave, no call changes the write log or the storage, a call of one
\* predicate changes neither the gas meter nor the iterators of another,
\* and the gas, the iterators and the results of each predicate are those
\* of the same calls made by that predicate alone.
C34_PredicatesIndependent ==
    /\ [](sandbox.state = "running" =>
            \A addr \in ParVerifiers :
                Own(sandbox.runs[addr])
                  = Own(Alone(VpEnv(addr, sandbox.storage, sandbox.write_log),
                              sandbox.calls[addr])))
    /\ [][sandbox.state = "running" =>
            /\ sandbox'.storage = sandbox.storage
            /\ sandbox'.write_log = sandbox.write_log
            /\ \A addr \in ParVerifiers :
                  sandbox'.calls[addr] = sandbox.calls[addr] =>
                      sandbox'.runs[addr] = sandbox.runs[addr]]_vars

\* The predicate of A opened an iterator and advanced it, the predicate of
\* B opened its own in between and read a key the transaction wrote: both
\* hold the id 0 and B's iterator is where it was opened.
C34_Witness ==
    /\ sandbox.state = "running"
    /\ sandbox.write_log # EmptyWriteLog
    /\ Len(sandbox.calls["A"]) = 2
    /\ sandbox.calls["A"][1].op = "_iter_prefix"
    /\ sandbox.calls["A"][2].op = "_iter_post_next"
    /\ Len(sandbox.calls["B"]) = 2
    /\ sandbox.calls["B"][1].op = "_iter_prefix"
    /\ sandbox.calls["B"][2].op = "_read_post"
    /\ sandbox.runs["A"].gas_meter # sandbox.runs["B"].gas_meter
    /\ sandbox.runs["A"].iterators # sandbox.runs["B"].iterators

\* ---------------------------------------------------------------------
\* The ids of the iterators of a guest invocation (IterSpec).
\* ---------------------------------------------------------------------
\* The opens of an invocation that returned an id.
Opens(ctx) ==
    {i \in DOMAIN hist :
        /\ hist[i].ctx = ctx
        /\ hist[i].c.op = "_iter_prefix"
        /\ hist[i].fault = ""
        /\ IsSome(hist[i].ret)}

AnyNext == {"_iter_next", "_iter_next_varlen"} \cup PreNext \cup PostNext

\* C35: within one invocation the opens return distinct, increasing ids; an
\* advance of one iterator leaves every other iterator of the invocation
\* where it was; the invocation of the predicate starts with no live
\* iterator, and an advance gives it an entry only for an id one of its own
\* opens returned.
C35_IteratorIdsScoped ==
    /\ [](\A ctx \in {"tx", "vp"} : \A i, j \in Opens(ctx) :
            i < j => Unwrap(hist[i].ret) < Unwrap(hist[j].ret))
    /\ [][Called /\ LastCall.c.op \in AnyNext =>
            LET before == IF LastCall.ctx = "tx" THEN env.iterators
                          ELSE vp_env.iterators
                after == IF LastCall.ctx = "tx" THEN env'.iterators
                         ELSE vp_env'.iterators
            IN  /\ Len(after) = Len(before)
                /\ \A m \in DOMAIN before :
                      m # ArgInt(LastCall.c) + 1 => after[m] = before[m]]_vars
    /\ [][phase = "tx" /\ phase' = "vp" => vp_env'.iterators = <<>>]_vars
    /\ [][Called /\ LastCall.ctx = "vp" /\ LastCall.c.op \in AnyNext
             /\ LastCall.buf # None =>
            \E i \in Opens("vp") : Unwrap(hist[i].ret) = ArgInt(LastCall.c)]_vars

\* The transaction opened two iterators, with the ids 0 and 1, and advanced
\* the first; the predicate then asked for an entry of the id 0 before it
\* had opened an iterator and was given none.
C35_Witness ==
    /\ Len(hist) = 4
    /\ hist[1].c.op = "_iter_prefix" /\ hist[1].ret = Some(0)
    /\ hist[2].c.op = "_iter_prefix" /\ hist[2].ret = Some(1)
    /\ hist[3].c.op = "_iter_next" /\ hist[3].buf # None
    /\ Len(env.iterators) = 2
    /\ hist[4].ctx = "vp"
    /\ hist[4].c.op = "_iter_pre_next"
    /\ hist[4].buf = None
    /\ vp_env.iterators = <<>>

\* ---------------------------------------------------------------------
\* The BeginBlock request the shim keeps for the end of the block (Spec).
\* ---------------------------------------------------------------------
\* C36: an EndBlock that finds no saved BeginBlock forwards no FinalizeBlock
\* and stops the shim; the FinalizeBlock of an EndBlock carries the hash of
\* the saved BeginBlock, which is the one of the last BeginBlock request, and
\* takes it, so that the next EndBlock finds none unless a BeginBlock came
\* in between.
C36_EndBlockTakesBeginBlock ==
    /\ [][Serves("EndBlock") =>
            /\ begin_block_request = None =>
                  /\ FinalizeRequests' = {}
                  /\ node' = "panicked"
                  /\ shell'.storage = shell.storage
            /\ \A i \in FinalizeRequests' :
                  /\ IsSome(begin_block_request)
                  /\ forwarded'[i].arg.hash = Unwrap(begin_block_request).hash
                  /\ begin_block_request' = None]_vars
    /\ [][Serves("BeginBlock") /\ node' = "running" =>
            begin_block_request' = Some([hash |-> last_req'.arg.hash])]_vars
    /\ [][begin_block_request' # begin_block_request =>
            Serves("BeginBlock") \/ Serves("EndBlock")]_vars

\* After a height was committed an EndBlock came while no BeginBlock request
\* was saved: the shim stopped and forwarded nothing.
C36_Witness ==
    /\ last_req.type = "EndBlock" /\ last_req.arg.valid
    /\ node = "panicked"
    /\ begin_block_request = None
    /\ forwarded = <<>>
    /\ Len(shell.committed) > 1

\* ---------------------------------------------------------------------
\* The failure signal of the Tendermint thread (RunFairSpec).
\* ---------------------------------------------------------------------
\* C37: the failure signal is sent only after tendermint_node::run came back
\* with an error and before the shell is aborted; and once that error came
\* back while the shell serves, the process exits with the status 1 (the
\* shell saw the signal, or the broadcaster failed), unless the shell thread
\* panics by itself.
C37_FailureSeenByShell ==
    /\ [][threads'.failure /\ ~threads.failure =>
            threads.tm = "failed" /\ ~threads.aborted]_vars
    /\ (threads.tm = "failed" /\ threads.sh = "serving")
          ~> (threads.exited \/ threads.sh = "panicked")

\* ---------------------------------------------------------------------
\* The scan the pre and post advances of a predicate share (IterSpec).
\* ---------------------------------------------------------------------
\* The key of the entry an advance gave the guest.
YieldedKey(h) == Unwrap(h.buf)[2]

\* The scan of an iterator id of a registry, empty when the id is not live.
ScanOf(iterators, id) ==
    IF id + 1 \in DOMAIN iterators THEN iterators[id + 1] ELSE <<>>

\* C38: an advance of a predicate's iterator, of the pre or of the post
\* family, takes entries off the front of the one scan of the id: what it
\* gives the guest is the last entry it took, a pre advance takes one entry,
\* and the scan that stays is what follows; so the entries given for one id
\* by the two families together are distinct, and an entry one family gave
\* or passed over is not given by the other.
C38_SharedScanConsumedOnce ==
    /\ [][Called /\ LastCall.ctx = "vp" /\ LastCall.c.op \in PreNext \cup PostNext =>
            LET before == ScanOf(vp_env.iterators, ArgInt(LastCall.c))
                after == ScanOf(vp_env'.iterators, ArgInt(LastCall.c))
            IN  \E k \in 0 .. Len(before) :
                    /\ after = SubSeq(before, k + 1, Len(before))
                    /\ LastCall.c.op \in PreNext =>
                          k = (IF before = <<>> THEN 0 ELSE 1)
                    /\ LastCall.fault = "" /\ LastCall.buf # None =>
                          /\ k >= 1
                          /\ YieldedKey(LastCall) = before[k].key
                          /\ \A n \in DOMAIN after :
                                after[n].key # YieldedKey(LastCall)]_vars
    /\ [](\A id \in {0, 1} :
            \A m, n \in Yields("vp", PreNext \cup PostNext, id, Len(hist) + 1) :
                m # n => YieldedKey(hist[m]) # YieldedKey(hist[n]))

\* The storage holds BE/?, BE/x and BE/y and the transaction staged a Delete
\* of BE/x: a pre advance gave BE/?, a post advance passed over BE/x and gave
\* BE/y, and the pre advance after it found the scan at its end, BE/x not
\* being given to it.
C38_Witness ==
    /\ Len(hist) = 4 /\ {1, 2, 3, 4} \subseteq Returned("vp")
    /\ hist[1].c.op = "_iter_prefix"
    /\ hist[2].c.op \in PreNext /\ hist[2].buf # None
    /\ hist[3].c.op \in PostNext /\ hist[3].buf # None
    /\ hist[4].c.op \in PreNext /\ hist[4].buf = None
    /\ IsSome(vp_env.storage[<<"BE", "x">>]) /\ IsSome(vp_env.storage[<<"BE", "y">>])
    /\ <<"BE", "x">> \in DOMAIN vp_env.write_log
    /\ vp_env.write_log[<<"BE", "x">>].tag = "Delete"
    /\ YieldedKey(hist[3]) = "BE/y"

\* ---------------------------------------------------------------------
\* Negative amounts at the gas import (HostSpec).
\* ---------------------------------------------------------------------
\* The negative amounts of the guest's signed word: 5 bits in the model where
\* the code's i32 has 32, as the unsigned word has 20 for the code's 64.
NegativeAmounts == (0 - 2^4) .. (0 - 1)

\* C39: the cast of a negative amount gives an unsigned amount in the top
\* 2^4 values of the unsigned word (2^31 in the code); in every state a guest
\* can run in, the gas import called with any negative amount aborts the
\* invocation for the limit or leaves the meter no lower than it was, for
\* the transaction and for the predicate; and a gas call that was made with
\* a negative amount did so.
C39_NegativeGasNeverLowers ==
    /\ [](\A a \in NegativeAmounts :
            /\ U64(a) >= 2^20 - 2^4
            /\ Running(env) =>
                  /\ tx_charge_gas(env, a).gas_meter >= env.gas_meter
                  /\ \/ tx_charge_gas(env, a).aborted = "gas"
                     \/ tx_charge_gas(env, a).gas_meter = env.gas_meter + U64(a)
            /\ Running(vp_env) =>
                  /\ vp_charge_gas(vp_env, a).gas_meter >= vp_env.gas_meter
                  /\ \/ vp_charge_gas(vp_env, a).aborted = "gas"
                     \/ vp_charge_gas(vp_env, a).gas_meter = vp_env.gas_meter + U64(a))
    /\ [][Called /\ LastCall.c.op = "gas" /\ ArgInt(LastCall.c) < 0 =>
            /\ env'.gas_meter >= env.gas_meter
            /\ vp_env'.gas_meter >= vp_env.gas_meter
            /\ LastCall.fault = "gas"]_vars

\* The transaction charged 97 and returned; the predicate charged 99 and
\* then asked for -1: its invocation was aborted for the limit with the
\* meter above what it was.
C39_Witness ==
    /\ Len(hist) = 3
    /\ hist[1].ctx = "tx" /\ hist[1].c.op = "gas" /\ ArgInt(hist[1].c) = 97
    /\ hist[2].ctx = "vp" /\ hist[2].c.op = "gas" /\ ArgInt(hist[2].c) = 99
    /\ hist[2].fault = ""
    /\ hist[3].ctx = "vp" /\ hist[3].c.op = "gas" /\ ArgInt(hist[3].c) = -1
    /\ hist[3].fault = "gas"
    /\ vp_env.gas_meter > 99
    /\ env.gas_meter = 97

\* ---------------------------------------------------------------------
\* The auctions of the matchmaker (AuctionSpec).
\* ---------------------------------------------------------------------
\* The auctions of the intent the step added that bid on the key.
BidsOn(key) ==
    {i \in DOMAIN Unwrap(matchmaker'.intent).auctions :
        LET auction == Unwrap(matchmaker'.intent).auctions[i]
        IN  /\ auction.create_auction = None
            /\ IsSome(auction.place_bid)
            /\ Unwrap(auction.place_bid).auction_id = key}

IsPrefix(s, t) == Len(s) <= Len(t) /\ SubSeq(t, 1, Len(s)) = s

\* C40: a key enters the map only with an auction of the added intent whose
\* times satisfy now < start < end < clearance, with no bids and its result
\* not calculated, and an entry of the map stays under its key with its
\* auction; the bids of an entry only grow, by bids of the added intent on
\* its key, and only when start < now < end; result_calculated goes from
\* false to true only on a bid on the key with end < now < clearance, and
\* never from true to false.
C40_AuctionLifecycle ==
    [][matchmaker' # matchmaker =>
        LET now == matchmaker'.now
            old == matchmaker.auctions_map
            new == matchmaker'.auctions_map
        IN  /\ \A key \in DOMAIN new \ DOMAIN old :
                  /\ key = key_string(Unwrap(matchmaker'.intent))
                  /\ \E i \in DOMAIN Unwrap(matchmaker'.intent).auctions :
                        Unwrap(matchmaker'.intent).auctions[i].create_auction
                            = Some(new[key].create_auction)
                  /\ now < new[key].create_auction.auction_start
                  /\ new[key].create_auction.auction_start
                        < new[key].create_auction.auction_end
                  /\ new[key].create_auction.auction_end
                        < new[key].create_auction.auction_clearance
                  /\ new[key].bids = <<>>
                  /\ ~new[key].result_calculated
            /\ \A key \in DOMAIN old :
                  /\ key \in DOMAIN new
                  /\ new[key].create_auction = old[key].create_auction
                  /\ new[key].intent = old[key].intent
                  /\ new[key].id = old[key].id
                  /\ IsPrefix(old[key].bids, new[key].bids)
                  /\ new[key].bids # old[key].bids =>
                        /\ old[key].create_auction.auction_start < now
                        /\ now < old[key].create_auction.auction_end
                        /\ BidsOn(key) # {}
                        /\ \A n \in (Len(old[key].bids) + 1) .. Len(new[key].bids) :
                              new[key].bids[n].place_bid.auction_id = key
                  /\ old[key].result_calculated => new[key].result_calculated
                  /\ ~old[key].result_calculated /\ new[key].result_calculated =>
                        /\ old[key].create_auction.auction_end < now
                        /\ now < old[key].create_auction.auction_clearance
                        /\ BidsOn(key) # {}]_vars

\* The intent with two auctions was registered under its key with the first
\* of them, took a bid while it ran, had its result calculated after its
\* end, and the same intent arrived again: the entry kept its bid and its
\* result.
C40_Witness ==
    /\ matchmaker.state = "running"
    /\ IsSome(matchmaker.intent)
    /\ Len(Unwrap(matchmaker.intent).auctions) = 2
    /\ IsSome(Unwrap(matchmaker.intent).auctions[1].create_auction)
    /\ key_string(Unwrap(matchmaker.intent)) \in DOMAIN matchmaker.auctions_map
    /\ LET a == matchmaker.auctions_map[key_string(Unwrap(matchmaker.intent))]
       IN  /\ a.result_calculated
           /\ Len(a.bids) = 1
           /\ a.create_auction = CreateAuction(<<1, 3, 5>>)
    /\ matchmaker.now = 0
====
